---- MODULE Spec2Model ----
(***************************************************************************)
(* ttmap: the grid-connectivity core.  A Graph of grid intersections, the  *)
(* Map wrapper keyed by coordinates, and the generator that turns rect,    *)
(* line and entity declarations into edge mutations and entities.          *)
(***************************************************************************)
EXTENDS Integers, Sequences, FiniteSets, TLC

(* ------------------------------ bounds -------------------------------- *)
\* largest grid width / height a grid declaration carries
MaxWidth == 3
MaxHeight == 2
\* largest anchor coordinate and largest width / height / length / radius
MaxCoord == 1
MaxLen == 2
\* number of shape / entity nodes following the grid declaration
MaxNodes == 2
\* largest cell_pixel_dimension handed to compile_svg
MaxDim == 1
\* number of rectangles when only in-bounds rectangles are declared
MaxRects == 3
\* direct calls of Map::connect / Map::disconnect, and the largest coordinate
\* they are given
MaxCalls == 3
MaxCallCoord == 1
\* largest coordinate of the points point_exists is asked about
MaxProbe == 4
MaxLines == 2

\* Option::None and the absence of an error
None == [tag |-> "None"]

(* ------------------------------ points.rs ----------------------------- *)
point(x, y) == [x |-> x, y |-> y]

down(p) == point(p.x, p.y + 1)

right(p) == point(p.x + 1, p.y)

(* ------------------------------ graph.rs ------------------------------ *)
\* NodeHandle(i) is the index i itself; Graph.nodes is a function on 0..n-1

RECURSIVE iter_position(_, _, _)
\* Iterator::position: index (1-based here) of the first x in edges, 0 if none
iter_position(edges, x, i) ==
    IF i > Len(edges) THEN 0
    ELSE IF edges[i] = x THEN i
    ELSE iter_position(edges, x, i + 1)

\* Vec::swap_remove(index): the last element takes the removed one's place
swap_remove(edges, index) ==
    LET n == Len(edges)
    IN  [i \in 1..(n - 1) |-> IF i = index THEN edges[n] ELSE edges[i]]

Node_add_edge(node, node_handle) ==
    [node EXCEPT !.edges = Append(@, node_handle)]

\* Node::remove_edge removing the last edge when the handle is not found
Node_remove_edge_or_last(node, node_handle) ==
    LET index == iter_position(node.edges, node_handle, 1)
    IN  IF index # 0
        THEN [node EXCEPT !.edges = swap_remove(@, index)]
        ELSE IF node.edges # <<>>
        THEN [node EXCEPT !.edges = swap_remove(@, Len(@))]
        ELSE node

Node_remove_edge(node, node_handle) ==
    LET index == iter_position(node.edges, node_handle, 1)
    IN  IF index # 0
        THEN [node EXCEPT !.edges = swap_remove(@, index)]
        ELSE node

Node_has_edge(node, handle) ==
    \E i \in 1..Len(node.edges) : node.edges[i] = handle

Graph_new == [nodes |-> <<>>]

\* self.nodes.len(); nodes is a 0-based function, a Vec indexed by the handle
NodeCount(graph) == Cardinality(DOMAIN graph.nodes)

\* Graph::add_node giving the new node an edge to the node before it
Graph_add_node_chained(graph, data) ==
    LET index == NodeCount(graph)
    IN  [nodes |-> [i \in 0..index |->
                      IF i = index
                      THEN [data |-> data,
                            edges |-> IF index > 0 THEN <<index - 1>> ELSE <<>>]
                      ELSE graph.nodes[i]]]

Graph_add_node(graph, data) ==
    LET index == NodeCount(graph)
    IN  [nodes |-> [i \in 0..index |->
                      IF i = index THEN [data |-> data, edges |-> <<>>]
                      ELSE graph.nodes[i]]]

\* Graph::add_edge updating only the first node's adjacency list
Graph_add_edge_one_way(graph, h1, h2) ==
    [graph EXCEPT !.nodes[h1] = Node_add_edge(@, h2)]

Graph_add_edge(graph, h1, h2) ==
    LET g1 == [graph EXCEPT !.nodes[h1] = Node_add_edge(@, h2)]
    IN  [g1 EXCEPT !.nodes[h2] = Node_add_edge(@, h1)]

\* Graph::remove_edge updating only the first node's adjacency list
Graph_remove_edge_first_only(graph, h1, h2) ==
    [graph EXCEPT !.nodes[h1] = Node_remove_edge(@, h2)]

Graph_remove_edge(graph, h1, h2) ==
    LET g1 == [graph EXCEPT !.nodes[h1] = Node_remove_edge(@, h2)]
    IN  [g1 EXCEPT !.nodes[h2] = Node_remove_edge(@, h1)]

is_edge_between(graph, handle1, handle2) ==
    IF Node_has_edge(graph.nodes[handle1], handle2)
    THEN TRUE
    ELSE Node_has_edge(graph.nodes[handle2], handle1)

\* the handles of a Vec<NodeHandle>
NodeSet(handles) == {handles[k] : k \in 1..Len(handles)}

RECURSIVE cycle_from_whole_stack(_, _, _, _)
\* the copy of the stack, top first, without the break at handle
cycle_from_whole_stack(stack, handle, i, cycle) ==
    IF i < 1 THEN cycle
    ELSE cycle_from_whole_stack(stack, handle, i - 1, Append(cycle, stack[i]))

RECURSIVE cycle_from(_, _, _, _)
\* the loop of find_cycles_rec that copies the stack, top first, down to handle
cycle_from(stack, handle, i, cycle) ==
    IF i < 1 THEN cycle
    ELSE IF stack[i] = handle THEN Append(cycle, stack[i])
    ELSE cycle_from(stack, handle, i - 1, Append(cycle, stack[i]))

RECURSIVE find_cycles_rec(_, _, _, _, _)
RECURSIVE find_cycles_edges(_, _, _, _, _, _, _)
\* acc = [seen, cycles, found]: the two &mut arguments and the returned bool;
\* the stack is passed by value since every push is matched by a pop
find_cycles_rec(graph, handle, seen, stack, cycles) ==
    IF \E i \in 1..Len(stack) : stack[i] = handle
    THEN [seen |-> seen,
          cycles |-> Append(cycles, cycle_from(stack, handle, Len(stack), <<>>)),
          found |-> TRUE]
    ELSE LET is_back_ref == stack # <<>>
             back_ref == IF is_back_ref THEN stack[Len(stack)] ELSE -1
             r == find_cycles_edges(graph, handle, 1, is_back_ref, back_ref,
                                    Append(stack, handle),
                                    [seen |-> seen, cycles |-> cycles, found |-> FALSE])
         IN  [seen |-> r.seen \cup {handle}, cycles |-> r.cycles, found |-> r.found]

\* the for loop over self.nodes[handle.0].edges, from the i-th edge on
find_cycles_edges(graph, handle, i, is_back_ref, back_ref, stack, acc) ==
    LET edges == graph.nodes[handle].edges
    IN  IF i > Len(edges) THEN acc
        ELSE IF (is_back_ref /\ back_ref = edges[i]) \/ handle \in acc.seen
        THEN find_cycles_edges(graph, handle, i + 1, is_back_ref, back_ref, stack, acc)
        ELSE LET r == find_cycles_rec(graph, edges[i], acc.seen, stack, acc.cycles)
             IN  find_cycles_edges(graph, handle, i + 1, is_back_ref, back_ref, stack,
                                   [seen |-> r.seen, cycles |-> r.cycles,
                                    found |-> acc.found \/ r.found])

\* handles that occur in some cycle
CycleHandles(cycles) ==
    UNION {{cycles[c][k] : k \in 1..Len(cycles[c])} : c \in 1..Len(cycles)}

\* find_cycles searching from its first root alone
find_cycles_from_root_only(graph, i, visited, cycles) ==
    IF i >= NodeCount(graph) THEN cycles
    ELSE find_cycles_rec(graph, i, {}, <<>>, cycles).cycles

RECURSIVE find_cycles_from(_, _, _, _)
\* the outer loop of find_cycles from index i on
find_cycles_from(graph, i, visited, cycles) ==
    IF i >= NodeCount(graph) THEN cycles
    ELSE IF i \in visited
    THEN find_cycles_from(graph, i + 1, visited, cycles)
    ELSE LET r == find_cycles_rec(graph, i, {}, <<>>, cycles)
         IN  find_cycles_from(graph, i + 1, visited \cup CycleHandles(r.cycles), r.cycles)

find_cycles(graph) == find_cycles_from(graph, 0, {}, <<>>)

RECURSIVE bfs_loop_unmarked(_, _, _, _)
\* the loop of bfs without the test of visited[h] after the pop
bfs_loop_unmarked(graph, stack, nodes, visited) ==
    IF stack = <<>> THEN [nodes |-> nodes, visited |-> visited]
    ELSE LET h == stack[Len(stack)]
             rest == SubSeq(stack, 1, Len(stack) - 1)
             unvisited == SelectSeq(graph.nodes[h].edges,
                                    LAMBDA e : e \notin visited \cup {h})
         IN  bfs_loop_unmarked(graph, rest \o unvisited,
                               Append(nodes, h), visited \cup {h})

RECURSIVE bfs_loop(_, _, _, _)
\* while let Some(h) = stack.pop(): state = (stack, nodes, visited)
bfs_loop(graph, stack, nodes, visited) ==
    IF stack = <<>> THEN [nodes |-> nodes, visited |-> visited]
    ELSE LET h == stack[Len(stack)]
             rest == SubSeq(stack, 1, Len(stack) - 1)
         IN  IF h \in visited
             THEN bfs_loop(graph, rest, nodes, visited)
             ELSE bfs_loop(graph, rest \o graph.nodes[h].edges,
                           Append(nodes, h), visited \cup {h})

bfs(graph, start, visited) == bfs_loop(graph, <<start>>, <<>>, visited)

RECURSIVE connected_components_from(_, _, _, _)
connected_components_from(graph, i, visited, components) ==
    IF i >= NodeCount(graph) THEN components
    ELSE IF i \in visited
    THEN connected_components_from(graph, i + 1, visited, components)
    ELSE LET r == bfs(graph, i, visited)
         IN  connected_components_from(graph, i + 1, r.visited,
                                       Append(components, r.nodes))

connected_components(graph) == connected_components_from(graph, 0, {}, <<>>)

(* -------------------------- compile_error.rs -------------------------- *)
CompileError_new(error_type, line, col) ==
    [tag |-> "Err", error_type |-> error_type, location |-> [line |-> line, col |-> col]]

(* ------------------------------- map.rs -------------------------------- *)
\* Iterator for PointsIter: next() as (item, iterator after the call)
PointsIter_next(it) ==
    IF it.x >= it.x_max \/ it.y >= it.y_max
    THEN [item |-> None, it |-> it]
    ELSE [item |-> [tag |-> "Some", point |-> point(it.x, it.y)],
          it |-> IF it.x + 1 >= it.x_max
                 THEN [it EXCEPT !.x = 0, !.y = it.y + 1]
                 ELSE [it EXCEPT !.x = it.x + 1]]

\* grid_points over the cells: 0..width-1 by 0..height-1
grid_points_of_cells(width, height) ==
    [x |-> 0, y |-> 0, x_max |-> width, y_max |-> height]

grid_points(width, height) == [x |-> 0, y |-> 0, x_max |-> width + 1, y_max |-> height + 1]

RECURSIVE Map_new_loop(_, _, _, _)
\* for (i, p) in grid_points(width, height).enumerate()
Map_new_loop(it, i, graph, point_nodes) ==
    LET n == PointsIter_next(it)
    IN  IF n.item.tag = "None"
        THEN [graph |-> graph, point_nodes |-> point_nodes]
        ELSE Map_new_loop(n.it, i + 1, Graph_add_node(graph, n.item.point),
                          [k \in (DOMAIN point_nodes) \cup {i} |->
                             IF k = i THEN NodeCount(graph) ELSE point_nodes[k]])

Map_new(width, height) ==
    LET r == Map_new_loop(grid_points(width, height), 0, Graph_new, <<>>)
    IN  [width |-> width, height |-> height, graph |-> r.graph,
         point_nodes |-> r.point_nodes, entities |-> <<>>]

\* Option<&NodeHandle>: the handle, or -1 for None
find_node(map, p) ==
    LET key == p.x + (map.width + 1) * p.y
    IN  IF key \in DOMAIN map.point_nodes THEN map.point_nodes[key] ELSE -1

\* point_exists by the key lookup alone, without the range test
point_exists_by_key(map, p) == find_node(map, p) # -1

point_exists(map, p) ==
    IF p.x > map.width \/ p.y > map.height
    THEN FALSE
    ELSE find_node(map, p) # -1

\* find_node(p).unwrap() succeeds for both points
unwrap_ok(map, p1, p2) == find_node(map, p1) # -1 /\ find_node(map, p2) # -1

connect(map, p1, p2) ==
    [map EXCEPT !.graph = Graph_add_edge(@, find_node(map, p1), find_node(map, p2))]

disconnect(map, p1, p2) ==
    [map EXCEPT !.graph = Graph_remove_edge(@, find_node(map, p1), find_node(map, p2))]

are_connected(map, p1, p2) ==
    is_edge_between(map.graph, find_node(map, p1), find_node(map, p2))

contains_point(map, p) == p.x <= map.width /\ p.y <= map.height

add_entity(map, entity) == [map EXCEPT !.entities = Append(@, entity)]

(* ----------------------------- generator.rs ---------------------------- *)
\* The state a handler threads through its calls on the map: the map, the
\* error returned by `?` (None while running), whether an unwrap of
\* find_node failed, whether Graph::add_edge was called for two nodes
\* that already had an edge between them, and whether the map was queried or
\* mutated with a point that fails point_exists.
GenState(map) ==
    [map |-> map, err |-> None, panic |-> FALSE, redundant |-> FALSE,
     unchecked |-> FALSE]

\* map.are_connected / connect / disconnect is called with p1 and p2
map_call(st, p1, p2) ==
    [st EXCEPT !.unchecked = @ \/ ~point_exists(st.map, p1)
                               \/ ~point_exists(st.map, p2)]

Stopped(st) == st.err.tag # "None" \/ st.panic

out_of_bounds(location) == CompileError_new("OutOfBounds", location.line, location.col)

\* map.connect(p1, p2) as called by the generator
do_connect(st, p1, p2) ==
    IF ~unwrap_ok(st.map, p1, p2) THEN [map_call(st, p1, p2) EXCEPT !.panic = TRUE]
    ELSE [map_call(st, p1, p2) EXCEPT
              !.map = connect(st.map, p1, p2),
              !.redundant = @ \/ are_connected(st.map, p1, p2)]

\* map.disconnect(p1, p2) as called by the generator
do_disconnect(st, p1, p2) ==
    IF ~unwrap_ok(st.map, p1, p2) THEN [map_call(st, p1, p2) EXCEPT !.panic = TRUE]
    ELSE [map_call(st, p1, p2) EXCEPT !.map = disconnect(st.map, p1, p2)]

\* handle_rect_points connecting under Xor as under Or
handle_rect_points_always_connect(st, rect, start, end, location) ==
    IF ~point_exists(st.map, start) \/ ~point_exists(st.map, end)
    THEN [st EXCEPT !.err = CompileError_new("OutOfBounds", location.line, location.col)]
    ELSE do_connect(st, start, end)

\* handle_rect_points testing point_exists for `start` alone
handle_rect_points_start_only(st, rect, start, end, location) ==
    IF ~point_exists(st.map, start)
    THEN [st EXCEPT !.err = CompileError_new("OutOfBounds", location.line, location.col)]
    ELSE IF rect.boolean_op = "Or"
    THEN do_connect(st, start, end)
    ELSE IF ~unwrap_ok(st.map, start, end)
    THEN [map_call(st, start, end) EXCEPT !.panic = TRUE]
    ELSE IF are_connected(st.map, start, end)
    THEN do_disconnect(st, start, end)
    ELSE do_connect(st, start, end)

handle_rect_points(st, rect, start, end, location) ==
    IF ~point_exists(st.map, start) \/ ~point_exists(st.map, end)
    THEN [st EXCEPT !.err = CompileError_new("OutOfBounds", location.line, location.col)]
    ELSE IF rect.boolean_op = "Or"
    THEN do_connect(st, start, end)
    ELSE IF ~unwrap_ok(st.map, start, end)
    THEN [map_call(st, start, end) EXCEPT !.panic = TRUE]
    ELSE IF are_connected(st.map, start, end)
    THEN do_disconnect(st, start, end)
    ELSE do_connect(st, start, end)

\* the unit segment a side of the rectangle traces at step i
RectSegment(rect, side, i) ==
    LET x == rect.point.x
        y == rect.point.y
    IN  CASE side = "top"    -> <<point(x + i, y), point(x + i + 1, y)>>
          [] side = "left"   -> <<point(x, y + i), point(x, y + i + 1)>>
          [] side = "bottom" -> <<point(x + i, y + rect.height),
                                  point(x + i + 1, y + rect.height)>>
          [] side = "right"  -> <<point(x + rect.width, y + i),
                                  point(x + rect.width, y + i + 1)>>

RECURSIVE rect_side_inclusive(_, _, _, _, _, _)
\* a for loop of handle_rect over 0..=n, one segment past the corner
rect_side_inclusive(st, rect, side, i, n, location) ==
    IF i > n \/ Stopped(st) THEN st
    ELSE LET seg == RectSegment(rect, side, i)
         IN  rect_side_inclusive(handle_rect_points(st, rect, seg[1], seg[2], location),
                                 rect, side, i + 1, n, location)

RECURSIVE rect_side(_, _, _, _, _, _)
\* one of the four for loops of handle_rect, from step i on; `?` leaves it
rect_side(st, rect, side, i, n, location) ==
    IF i >= n \/ Stopped(st) THEN st
    ELSE LET seg == RectSegment(rect, side, i)
         IN  rect_side(handle_rect_points(st, rect, seg[1], seg[2], location),
                       rect, side, i + 1, n, location)

handle_rect(st, rect, location) ==
    LET top    == rect_side(st, rect, "top", 0, rect.width, location)
        left   == rect_side(top, rect, "left", 0, rect.height, location)
        bottom == rect_side(left, rect, "bottom", 0, rect.width, location)
    IN  rect_side(bottom, rect, "right", 0, rect.height, location)

\* the declared start of a line, whatever its orientation
line_start_unshifted(line) == line.start

\* the effective start of a line
line_start(line) ==
    CASE line.orientation \in {"Left", "Top"} -> line.start
      [] line.orientation = "Right" -> right(line.start)
      [] line.orientation = "Bottom" -> down(line.start)

line_step(line, p) ==
    IF line.orientation \in {"Left", "Right"} THEN down(p) ELSE right(p)

RECURSIVE line_loop(_, _, _, _, _)
\* for _ in 0..line.length(), from step i on, at point p
line_loop(st, line, p, i, location) ==
    IF i >= line.length \/ Stopped(st) THEN st
    ELSE LET p2 == line_step(line, p)
         IN  IF ~(point_exists(st.map, p) /\ point_exists(st.map, p2))
             THEN [st EXCEPT !.err = CompileError_new("OutOfBounds", location.line,
                                                      location.col)]
             ELSE IF ~unwrap_ok(st.map, p, p2)
             THEN [map_call(st, p, p2) EXCEPT !.panic = TRUE]
             ELSE IF line.boolean_op = "Xor" /\ are_connected(st.map, p, p2)
             THEN line_loop(do_disconnect(st, p, p2), line, p2, i + 1, location)
             ELSE line_loop(do_connect(st, p, p2), line, p2, i + 1, location)

handle_line(st, line, location) == line_loop(st, line, line_start(line), 0, location)

Entity_new(shape, p, position) == [shape |-> shape, point |-> p, position |-> position]

\* the points a circle is checked against: [center, left, top, right, bottom]
circle_points(center, r) ==
    LET left   == point(center.x - r, center.y)
        top    == point(center.x, center.y - r)
        right_ == point(center.x + r, center.y)
        bottom == point(center.x + r, center.y)
    IN  <<center, left, top, right_, bottom>>

handle_entity(st, entity_node, location) ==
    LET center == entity_node.point
        r == entity_node.shape.radius
        attached == [st EXCEPT !.map = add_entity(@,
                        Entity_new(entity_node.shape, entity_node.point,
                                   entity_node.position))]
    IN  IF entity_node.shape.kind = "Circle"
        THEN IF r > center.x THEN [st EXCEPT !.err = out_of_bounds(location)]
             ELSE IF r > center.y THEN [st EXCEPT !.err = out_of_bounds(location)]
             ELSE IF \E i \in 1..5 : ~point_exists(st.map, circle_points(center, r)[i])
             THEN [st EXCEPT !.err = out_of_bounds(location)]
             ELSE attached
        ELSE attached

(* ------------------------------- svg / draw ---------------------------- *)
scale(p, scale_factor) == point(p.x * scale_factor, p.y * scale_factor)

\* background cells drawn for 0..=width by 0..=height, one per intersection
grid_cells_per_point(map, dim) ==
    [k \in 1..((map.width + 1) * (map.height + 1)) |->
        [tag |-> "rect",
         p |-> scale(point((k - 1) \div (map.height + 1), (k - 1) % (map.height + 1)), dim),
         width |-> dim, height |-> dim, colour |-> "LIGHT_GRAY"]]

\* the background cells: for i in 0..width { for j in 0..height { grid_cell } }
grid_cells(map, dim) ==
    [k \in 1..(map.width * map.height) |->
        [tag |-> "rect",
         p |-> scale(point((k - 1) \div map.height, (k - 1) % map.height), dim),
         width |-> dim, height |-> dim, colour |-> "LIGHT_GRAY"]]

SelectPoints(points, map) == SelectSeq(points, LAMBDA q : contains_point(map, q))

\* one polygon per cycle, through the cycle's points scaled by dim
polygons(map, dim) ==
    LET cycles == find_cycles(map.graph)
    IN  [c \in 1..Len(cycles) |->
           [tag |-> "polygon",
            points |-> LET pts == [k \in 1..Len(cycles[c]) |->
                                      map.graph.nodes[cycles[c][k]].data]
                           kept == SelectPoints(pts, map)
                       IN  [k \in 1..Len(kept) |-> scale(kept[k], dim)],
            colour |-> "Black"]]

\* Node::edge_count: the number of entries of the node's adjacency list
edge_count(node) == Len(node.edges)

RECURSIVE SimplePathsFrom(_, _, _)
\* the simple paths that prolong `path` along edges up to handle b
SimplePathsFrom(graph, path, b) ==
    LET h == path[Len(path)]
    IN  IF h = b THEN {path}
        ELSE UNION {SimplePathsFrom(graph, Append(path, e), b) :
                        e \in NodeSet(graph.nodes[h].edges) \ NodeSet(path)}

\* Graph::find_path(a, b): the simple paths it may return; none is None
find_path(graph, a, b) == SimplePathsFrom(graph, <<a>>, b)

\* the payloads of the nodes of the first cycle alone
polygon_points_of_first_cycle(map, cycles) ==
    {map.graph.nodes[h].data : h \in UNION {NodeSet(cycles[c]) : c \in 1..Len(cycles) \cap {1}}}

\* the payloads of the nodes that lie on a cycle
polygon_points(map, cycles) ==
    {map.graph.nodes[h].data : h \in UNION {NodeSet(cycles[c]) : c \in 1..Len(cycles)}}

\* endpoints.chunks(2) of one component as (start, end) pairs; a last chunk
\* of one endpoint ends at endpoints[0]
chunk_ends(endpoints) ==
    [c \in 1..((Len(endpoints) + 1) \div 2) |->
        <<endpoints[2 * c - 1],
          IF 2 * c <= Len(endpoints) THEN endpoints[2 * c] ELSE endpoints[1]>>]

RECURSIVE path_ends(_, _, _, _)
\* the (start, end) pairs of the paths draw asks for, over the components k..
path_ends(map, cycles, components, k) ==
    IF k > Len(components) THEN <<>>
    ELSE IF Len(components[k]) <= 1 THEN path_ends(map, cycles, components, k + 1)
    ELSE LET handles == SelectSeq(components[k],
                            LAMBDA h : map.graph.nodes[h].data
                                           \notin polygon_points(map, cycles))
             endpoints == SelectSeq(handles,
                              LAMBDA h : edge_count(map.graph.nodes[h]) = 1)
         IN  chunk_ends(endpoints) \o path_ends(map, cycles, components, k + 1)

RECURSIVE path_choices(_, _, _, _)
\* the sequences of path elements draw may emit for the pairs k.. of ends;
\* the empty set when some find_path(start, end).unwrap() panics
path_choices(map, dim, ends, k) ==
    IF k > Len(ends) THEN {<<>>}
    ELSE {<<[tag |-> "path",
             points |-> [i \in 1..Len(pr[1]) |->
                            scale(map.graph.nodes[pr[1][i]].data, dim)],
             colour |-> "Black"]>> \o pr[2] :
            pr \in find_path(map.graph, ends[k][1], ends[k][2])
                     \X path_choices(map, dim, ends, k + 1)}

paths(map, dim) ==
    path_choices(map, dim,
                 path_ends(map, find_cycles(map.graph),
                           connected_components(map.graph), 1), 1)

\* Point + Point
add(p, q) == point(p.x + q.x, p.y + q.y)

\* `mid - 1` where mid = 0: usize::MAX (2^64 - 1) in a build without overflow
\* checks, written -1 here
WrappedMinusOne == -1

\* the usize subtraction self.dim / 2 - 1 underflows
circle_underflows(entity, dim) ==
    entity.shape.kind = "Circle" /\ entity.position = "Within" /\ dim \div 2 = 0

circle_entity(entity, dim) ==
    IF entity.position = "Within"
    THEN LET mid == dim \div 2
             p == add(scale(entity.point, dim), point(mid, mid))
         IN  <<[tag |-> "circle", x |-> p.x, y |-> p.y,
                radius |-> IF mid >= 1 THEN mid - 1 ELSE WrappedMinusOne,
                colour |-> "Black"]>>
    ELSE LET p == scale(entity.point, dim)
         IN  <<[tag |-> "circle", x |-> p.x, y |-> p.y,
                radius |-> entity.shape.radius * dim, colour |-> "Black"]>>

square_entity(entity, dim) ==
    LET side == (dim * 3) \div 5
        offset == (dim - side) \div 2
        p == add(scale(entity.point, dim), point(offset, offset))
    IN  <<[tag |-> "rect", p |-> p, width |-> side, height |-> side, colour |-> "Black"]>>

stair_entity(entity, dim) ==
    LET height == (dim * 3) \div 5
        offset == (dim - height) \div 2
        riser == dim \div 5
        origin == add(scale(entity.point, dim), point(offset, offset))
        points == <<point(0, 2 * riser), point(0, 3 * riser), point(height, height),
                    point(height, 0), point(2 * riser, 0), point(2 * riser, riser),
                    point(riser, riser), point(riser, 2 * riser)>>
    IN  <<[tag |-> "polygon", points |-> [i \in 1..8 |-> add(points[i], origin)],
           colour |-> "Black"]>>

ladder_entity(entity, dim) ==
    LET height == (dim * 3) \div 5
        offset == (dim - height) \div 2
        l == dim \div 5
        origin == add(scale(entity.point, dim), point(offset, offset))
        left_rail_points == <<add(point(l, 0), origin), add(point(l, 3 * l), origin)>>
        right_rail_points == [i \in 1..2 |-> add(left_rail_points[i], point(l, 0))]
        top_rung == <<add(point(l, l), origin), add(point(2 * l, l), origin)>>
        bottom_rung == <<add(point(l, 2 * l), origin), add(point(2 * l, 2 * l), origin)>>
        all == <<left_rail_points, right_rail_points, top_rung, bottom_rung>>
    IN  [i \in 1..4 |-> [tag |-> "path", points |-> all[i], colour |-> "Black"]]

x_entity(entity, dim) ==
    LET offset == dim \div 5
        p == add(scale(entity.point, dim), point(offset, offset))
        side == (dim * 3) \div 5
        horiz == point(side, 0)
        vert == point(0, side)
    IN  <<[tag |-> "path", points |-> <<p, add(add(p, horiz), vert)>>, colour |-> "Black"],
          [tag |-> "path", points |-> <<add(p, vert), add(p, horiz)>>, colour |-> "Black"]>>

RECURSIVE entity_elements(_, _, _)
\* for entity in map.entities().iter(), from entity k on
entity_elements(entities, dim, k) ==
    IF k > Len(entities) THEN <<>>
    ELSE (CASE entities[k].shape.kind = "Circle" -> circle_entity(entities[k], dim)
            [] entities[k].shape.kind = "Square" -> square_entity(entities[k], dim)
            [] entities[k].shape.kind = "Stair" -> stair_entity(entities[k], dim)
            [] entities[k].shape.kind = "Ladder" -> ladder_entity(entities[k], dim)
            [] entities[k].shape.kind = "X" -> x_entity(entities[k], dim))
         \o entity_elements(entities, dim, k + 1)

\* SvgPath::to_svg indexes points_strs[0]: a path without points panics
path_to_svg_panics(elements) ==
    \E k \in 1..Len(elements) : elements[k].tag = "path" /\ elements[k].points = <<>>

\* a panic of the rendering pass
Panic == [tag |-> "Panic"]

\* SvgMapDrawing::draw: the documents it may return, and Panic where an
\* unwrap of find_path fails or, in a build with overflow checks, where a
\* circle's radius underflows
draw(map, dim) ==
    LET documents ==
            {[tag |-> "Svg", width |-> dim * map.width, height |-> dim * map.height,
              elements |-> grid_cells(map, dim) \o polygons(map, dim) \o chosen
                             \o entity_elements(map.entities, dim, 1)] :
                chosen \in paths(map, dim)}
        underflow == \E k \in 1..Len(map.entities) : circle_underflows(map.entities[k], dim)
    IN  IF documents = {} THEN {Panic}
        ELSE IF \E d \in documents : path_to_svg_panics(d.elements)
        THEN {Panic}
        ELSE IF underflow THEN documents \cup {Panic}
        ELSE documents

\* the outcomes of map_to_svg
map_to_svg(map, dim) == draw(map, dim)

(* ------------------------------ compiler.rs ---------------------------- *)
error_message(error_type) ==
    CASE error_type = "NoGridDimensions" -> "No grid dimensions"
      [] error_type = "OutOfBounds" -> "Out-of-bounds point"

format_compile_error(err) ==
    [tag |-> "Diagnostic", line |-> err.location.line, col |-> err.location.col,
     message |-> error_message(err.error_type)]

\* compile_svg once generate_map has returned `result`: its possible outcomes
compile_svg_result(result, dim) ==
    IF result.tag = "Ok" THEN map_to_svg(result.map, dim)
    ELSE {format_compile_error(result.error)}

(* ------------------------------- lexer.rs ------------------------------ *)
\* The input text is given as the sequence of its maximal runs: a run of
\* alphabetic characters, a run of ASCII digits (with what parse::<u32>
\* returns for it, Err where the digits denote no u32), or one
\* other character (",", newline, whitespace, "#", anything else).
Alphabetic(text) == [class |-> "alphabetic", text |-> text, len |-> Len(text)]
Digits(parsed_u32, len) == [class |-> "digit", parse |-> parsed_u32, len |-> len]
Comma == [class |-> ",", len |-> 1]
Newline == [class |-> "newline", len |-> 1]
Whitespace == [class |-> "whitespace", len |-> 1]
CommentChar == [class |-> "#", len |-> 1]
OtherChar == [class |-> "other", len |-> 1]

Token_new(token_type, line, col) ==
    [token_type |-> token_type, position |-> [line |-> line, col |-> col]]

keywords ==
    << <<"at", "At">>, <<"circle", "Circle">>, <<"square", "Square">>,
       <<"entity", "Entity">>, <<"grid", "Grid">>, <<"height", "Height">>,
       <<"rect", "Rect">>, <<"width", "Width">>, <<"within", "Within">>,
       <<"xor", "Xor">>, <<"radius", "Radius">>, <<"line", "Line">>,
       <<"along", "Along">>, <<"left", "Left">>, <<"right", "Right">>,
       <<"top", "Top">>, <<"bottom", "Bottom">>, <<"from", "From">>,
       <<"length", "Length">>, <<"stair", "Stair">> >>

RECURSIVE keyword_position(_, _)
\* keywords.iter().position(..): the index of the keyword, 0 for None
keyword_position(identifier, index) ==
    IF index > Len(keywords) THEN 0
    ELSE IF keywords[index][1] = identifier THEN index
    ELSE keyword_position(identifier, index + 1)

Lexer_new(chars) == [chars |-> chars, i |-> 0, tokens |-> <<>>, line |-> 1, col |-> 1]

\* lex_while over the run at self.i: every character of the run is taken
lex_while(self) ==
    [self EXCEPT !.i = @ + 1, !.col = @ + self.chars[self.i + 1].len]

lex_identifier(self) ==
    LET col == self.col
        identifier == self.chars[self.i + 1].text
        index == keyword_position(identifier, 1)
    IN  IF index # 0
        THEN [tag |-> "Ok", lexer |-> lex_while(self),
              token |-> Token_new([kind |-> keywords[index][2]], self.line, col)]
        ELSE [tag |-> "Err",
              error |-> CompileError_new("UnrecognizedKeyword", self.line, col)]

lex_number(self) ==
    LET col == self.col
        s == self.chars[self.i + 1]
    IN  IF s.parse.tag = "Ok"
        THEN [tag |-> "Ok", lexer |-> lex_while(self),
              token |-> Token_new([kind |-> "Number", n |-> s.parse.n], self.line, col)]
        ELSE [tag |-> "Err", error |-> CompileError_new("InvalidNumber", self.line, col)]

RECURSIVE lex_single_line_comment(_)
lex_single_line_comment(self) ==
    IF self.i < Len(self.chars) /\ self.chars[self.i + 1].class # "newline"
    THEN lex_single_line_comment(lex_while(self))
    ELSE self

RECURSIVE analyze(_)
\* Lexer::analyze
analyze(self) ==
    IF self.i >= Len(self.chars) THEN [tag |-> "Ok", tokens |-> self.tokens]
    ELSE LET ch == self.chars[self.i + 1]
         IN  IF ch.class = "alphabetic"
             THEN LET r == lex_identifier(self)
                  IN  IF r.tag = "Err" THEN [tag |-> "Err", error |-> r.error]
                      ELSE analyze([r.lexer EXCEPT !.tokens = Append(@, r.token)])
             ELSE IF ch.class = "digit"
             THEN LET r == lex_number(self)
                  IN  IF r.tag = "Err" THEN [tag |-> "Err", error |-> r.error]
                      ELSE analyze([r.lexer EXCEPT !.tokens = Append(@, r.token)])
             ELSE IF ch.class = ","
             THEN analyze([self EXCEPT
                      !.tokens = Append(@, Token_new([kind |-> "Comma"], self.line,
                                                     self.col)),
                      !.i = @ + 1, !.col = @ + 1])
             ELSE IF ch.class = "newline"
             THEN analyze([self EXCEPT !.line = @ + 1, !.col = 1, !.i = @ + 1])
             ELSE IF ch.class = "whitespace"
             THEN analyze([self EXCEPT !.i = @ + 1, !.col = @ + 1])
             ELSE IF ch.class = "#"
             THEN analyze(lex_single_line_comment(self))
             ELSE [tag |-> "Err",
                   error |-> CompileError_new("InvalidCharacter", self.line, self.col)]

lex(chars) == analyze(Lexer_new(chars))

(* ------------------------------ parser.rs ------------------------------ *)
\* The parser's methods take the token vector and the index self.i; a method
\* returning Ok gives its value and the index it left.
Ok(value, i) == [tag |-> "Ok", value |-> value, i |-> i]
Err(error) == [tag |-> "Err", error |-> error]

\* the ? operator: continue with the Ok value, or return the Err
Try(r, F(_)) == IF r.tag = "Ok" THEN F(r) ELSE r

is_at_end(tokens, i) == i >= Len(tokens)

peek(tokens, i) ==
    IF ~is_at_end(tokens, i) THEN [tag |-> "Some", token |-> tokens[i + 1]] ELSE None

token_type_matches(token, token_type) == token.token_type.kind = token_type

syntax_error(expected, token) ==
    CompileError_new([kind |-> "SyntaxError", expected |-> expected,
                      actual |-> token.token_type.kind],
                     token.position.line, token.position.col)

next_matches(tokens, i, token_type) ==
    LET next == peek(tokens, i)
    IN  IF next.tag = "Some" THEN token_type_matches(next.token, token_type) ELSE FALSE

next_matches_any(tokens, i, token_types) ==
    \E tt \in token_types : next_matches(tokens, i, tt)

consume(tokens, i) ==
    IF i >= Len(tokens) THEN Err(CompileError_new("UnexpectedEndOfFile", 0, 0))
    ELSE Ok(tokens[i + 1], i + 1)

accept(tokens, i, token_type) ==
    Try(consume(tokens, i), LAMBDA t :
        IF token_type_matches(t.value, token_type) THEN t
        ELSE Err(syntax_error(token_type, t.value)))

accept_number(tokens, i) ==
    Try(consume(tokens, i), LAMBDA t :
        IF t.value.token_type.kind = "Number" THEN Ok(t.value.token_type.n, t.i)
        ELSE Err(syntax_error("Number", t.value)))

parse_grid_dimensions(tokens, i) ==
    Try(accept(tokens, i, "Grid"), LAMBDA grid_token :
    Try(accept_number(tokens, grid_token.i), LAMBDA width :
    Try(accept(tokens, width.i, "Comma"), LAMBDA comma :
    Try(accept_number(tokens, comma.i), LAMBDA height :
        Ok([type |-> "GridDimensions",
            shape |-> [width |-> width.value, height |-> height.value],
            location |-> grid_token.value.position], height.i)))))

parse_boolean_op(tokens, i) ==
    IF next_matches(tokens, i, "Xor") THEN Ok("Xor", i + 1) ELSE Ok("Or", i)

parse_point(tokens, i) ==
    Try(accept_number(tokens, i), LAMBDA x :
    Try(accept(tokens, x.i, "Comma"), LAMBDA comma :
    Try(accept_number(tokens, comma.i), LAMBDA y :
        Ok(point(x.value, y.value), y.i))))

parse_rect(tokens, i, boolean_op) ==
    Try(accept(tokens, i, "Rect"), LAMBDA rect_token :
    Try(accept(tokens, rect_token.i, "At"), LAMBDA at :
    Try(parse_point(tokens, at.i), LAMBDA p :
    Try(accept(tokens, p.i, "Width"), LAMBDA width_token :
    Try(accept_number(tokens, width_token.i), LAMBDA width :
    Try(accept(tokens, width.i, "Height"), LAMBDA height_token :
    Try(accept_number(tokens, height_token.i), LAMBDA height :
        Ok([type |-> "Rect",
            shape |-> [point |-> p.value, width |-> width.value,
                       height |-> height.value, boolean_op |-> boolean_op],
            location |-> rect_token.value.position], height.i))))))))

\* parse_line from the token after the orientation
parse_line_from(tokens, i, boolean_op, position, orientation) ==
    Try(consume(tokens, i), LAMBDA orientation_token :
    Try(accept(tokens, orientation_token.i, "From"), LAMBDA from :
    Try(parse_point(tokens, from.i), LAMBDA start :
    Try(accept(tokens, start.i, "Length"), LAMBDA length_token :
    Try(accept_number(tokens, length_token.i), LAMBDA length :
        Ok([type |-> "Line",
            shape |-> [orientation |-> orientation, start |-> start.value,
                       length |-> length.value, boolean_op |-> boolean_op],
            location |-> position], length.i))))))

parse_line(tokens, i, boolean_op) ==
    Try(accept(tokens, i, "Line"), LAMBDA line_token :
    Try(accept(tokens, line_token.i, "Along"), LAMBDA along :
        IF next_matches(tokens, along.i, "Left")
        THEN parse_line_from(tokens, along.i, boolean_op, line_token.value.position,
                             "Left")
        ELSE IF next_matches(tokens, along.i, "Top")
        THEN parse_line_from(tokens, along.i, boolean_op, line_token.value.position,
                             "Top")
        ELSE IF next_matches(tokens, along.i, "Right")
        THEN parse_line_from(tokens, along.i, boolean_op, line_token.value.position,
                             "Right")
        ELSE IF next_matches(tokens, along.i, "Bottom")
        THEN parse_line_from(tokens, along.i, boolean_op, line_token.value.position,
                             "Bottom")
        ELSE Try(consume(tokens, along.i), LAMBDA t :
                 Err(CompileError_new("InvalidOrientation", t.value.position.line,
                                      t.value.position.col)))))

parse_shape(tokens, i) ==
    IF is_at_end(tokens, i)
    THEN LET tok == tokens[Len(tokens)]
         IN  Err(CompileError_new("UnexpectedEndOfFile", tok.position.line,
                                  tok.position.col))
    ELSE IF next_matches_any(tokens, i, {"Circle", "Square"})
    THEN Try(consume(tokens, i), LAMBDA t : Ok(t.value.token_type.kind, t.i))
    ELSE Try(consume(tokens, i), LAMBDA token :
             Err(CompileError_new("InvalidShape", token.value.position.line,
                                  token.value.position.col)))

\* parse_entity from the point after the position keyword
parse_entity_from(tokens, i, node_position, shape_token_type, position_position, position) ==
    Try(accept_number(tokens, i), LAMBDA x :
    Try(accept(tokens, x.i, "Comma"), LAMBDA comma :
    Try(accept_number(tokens, comma.i), LAMBDA y :
        IF shape_token_type = "Circle"
        THEN IF position = "At"
             THEN Try(accept(tokens, y.i, "Radius"), LAMBDA radius_token :
                  Try(accept_number(tokens, radius_token.i), LAMBDA radius :
                      Ok([type |-> "Entity",
                          shape |-> [shape |-> [kind |-> "Circle",
                                                radius |-> radius.value],
                                     point |-> point(x.value, y.value),
                                     position |-> position],
                          location |-> node_position], radius.i)))
             ELSE Ok([type |-> "Entity",
                      shape |-> [shape |-> [kind |-> "Circle", radius |-> 0],
                                 point |-> point(x.value, y.value),
                                 position |-> position],
                      location |-> node_position], y.i)
        ELSE IF position = "At"
             THEN Err(CompileError_new("InvalidPosition", position_position.line,
                                       position_position.col))
             ELSE Ok([type |-> "Entity",
                      shape |-> [shape |-> [kind |-> "Square", radius |-> 0],
                                 point |-> point(x.value, y.value),
                                 position |-> position],
                      location |-> node_position], y.i))))

parse_entity(tokens, i) ==
    Try(accept(tokens, i, "Entity"), LAMBDA entity_token :
    Try(parse_shape(tokens, entity_token.i), LAMBDA shape_token_type :
        IF next_matches(tokens, shape_token_type.i, "Within")
        THEN Try(accept(tokens, shape_token_type.i, "Within"), LAMBDA within :
                 parse_entity_from(tokens, within.i, entity_token.value.position,
                                   shape_token_type.value, within.value.position,
                                   "Within"))
        ELSE IF next_matches(tokens, shape_token_type.i, "At")
        THEN Try(accept(tokens, shape_token_type.i, "At"), LAMBDA at :
                 parse_entity_from(tokens, at.i, entity_token.value.position,
                                   shape_token_type.value, at.value.position, "At"))
        ELSE IF ~is_at_end(tokens, shape_token_type.i)
        THEN LET tok == peek(tokens, shape_token_type.i).token
             IN  Err(CompileError_new("InvalidPosition", tok.position.line,
                                      tok.position.col))
        ELSE LET tok == tokens[Len(tokens)]
             IN  Err(CompileError_new("UnexpectedEndOfFile", tok.position.line,
                                      tok.position.col))))

RECURSIVE parse_loop(_, _, _)
\* the while loop of Parser::parse; Panic is its panic!("Unexpected token type")
parse_loop(tokens, i, ast_nodes) ==
    IF next_matches_any(tokens, i, {"Rect", "Entity", "Xor", "Line"})
    THEN LET boolean_op == parse_boolean_op(tokens, i)
         IN  IF next_matches(tokens, boolean_op.i, "Rect")
             THEN Try(parse_rect(tokens, boolean_op.i, boolean_op.value), LAMBDA node :
                      parse_loop(tokens, node.i, Append(ast_nodes, node.value)))
             ELSE IF next_matches(tokens, boolean_op.i, "Entity")
             THEN Try(parse_entity(tokens, boolean_op.i), LAMBDA node :
                      parse_loop(tokens, node.i, Append(ast_nodes, node.value)))
             ELSE IF next_matches(tokens, boolean_op.i, "Line")
             THEN Try(parse_line(tokens, boolean_op.i, boolean_op.value), LAMBDA node :
                      parse_loop(tokens, node.i, Append(ast_nodes, node.value)))
             ELSE Panic
    ELSE Ok(ast_nodes, i)

\* Parser::parse
Parser_parse(tokens) ==
    Try(parse_grid_dimensions(tokens, 0), LAMBDA grid_dimensions_node :
        parse_loop(tokens, grid_dimensions_node.i, <<grid_dimensions_node.value>>))

\* parser::parse: lex, then parse the tokens
parse(chars) ==
    LET tokens == lex(chars)
    IN  IF tokens.tag = "Err" THEN Err(tokens.error) ELSE Parser_parse(tokens.tokens)

(* ----------------------------- state machine --------------------------- *)
VARIABLES
    pc,        \* "start", "loop" (inside generate_map's for loop), "done", "panicked"
    grid,      \* the AST's grid dimensions node, or None
    ast,       \* the shape and entity nodes generate_map has taken so far
    map,       \* generate_map's local `map`
    redundant, \* Graph::add_edge was called for two nodes that already had an edge
    result,    \* what generate_map returned
    output,    \* what compile_svg returned
    call,      \* the last direct call of Map::connect / Map::disconnect
    input,     \* the lines of the source text written so far
    parsed,    \* what parser::parse returned for the source text
    unchecked  \* the map was queried or mutated with a point that fails
               \* point_exists

vars == <<pc, grid, ast, map, redundant, result, output, call, input, parsed,
          unchecked>>

GridPointsOf(width, height) == {point(x, y) : x \in 0..width, y \in 0..height}

GridPoints(m) == GridPointsOf(m.width, m.height)

Points == GridPointsOf(MaxCoord, MaxCoord)
Lengths == 0..MaxLen
Booleans == {"Or", "Xor"}
Orientations == {"Left", "Right", "Top", "Bottom"}

Rects == [point : Points, width : Lengths, height : Lengths, boolean_op : Booleans]
Lines == [orientation : Orientations, start : Points, length : Lengths,
          boolean_op : Booleans]
\* the entity nodes of the parser (circle at, circle within, square within)
\* and those the generator also accepts
EntityNodes ==
    {[shape |-> [kind |-> "Circle", radius |-> r], point |-> p, position |-> "At"] :
        r \in Lengths, p \in Points}
    \cup {[shape |-> [kind |-> "Circle", radius |-> 0], point |-> p,
           position |-> "Within"] : p \in Points}
    \cup {[shape |-> [kind |-> k, radius |-> 0], point |-> p, position |-> "Within"] :
        k \in {"Square", "Stair", "Ladder", "X"}, p \in Points}

\* the source location of the next node: one declaration per line after the
\* grid declaration, the node located at its rect / line / entity keyword
NextLocation(boolean_op) ==
    [line |-> Len(ast) + 2, col |-> IF boolean_op = "Xor" THEN 5 ELSE 1]

Init ==
    /\ pc = "start"
    /\ grid \in {None} \cup {[tag |-> "Some", width |-> w, height |-> h] :
                               w \in 0..MaxWidth, h \in 0..MaxHeight}
    /\ ast = <<>>
    /\ map = None
    /\ redundant = FALSE
    /\ result = None
    /\ output = None
    /\ call = None
    /\ input = <<>>
    /\ parsed = None
    /\ unchecked = FALSE

\* generate_map returns Err(error) and compile_svg formats it
ReturnErr(error) ==
    /\ pc' = "done"
    /\ result' = [tag |-> "Err", error |-> error]
    /\ \E dim \in 1..MaxDim : output' \in compile_svg_result(result', dim)

\* generate_map up to its for loop
GenerateMapStart ==
    /\ pc = "start"
    /\ IF grid.tag = "None"
       THEN /\ ReturnErr(CompileError_new("NoGridDimensions", 1, 1))
            /\ UNCHANGED map
       ELSE /\ map' = Map_new(grid.width, grid.height)
            /\ pc' = "loop"
            /\ UNCHANGED <<result, output>>
    /\ UNCHANGED <<grid, ast, redundant, call, input, parsed, unchecked>>

\* an iteration that drops the handler's Err instead of returning it
Iteration_without_return(node, st) ==
    /\ ast' = Append(ast, node)
    /\ map' = st.map
    /\ redundant' = (redundant \/ st.redundant)
    /\ IF st.panic
       THEN pc' = "panicked" /\ UNCHANGED <<result, output>>
       ELSE pc' = "loop" /\ UNCHANGED <<result, output>>
    /\ unchecked' = (unchecked \/ st.unchecked)
    /\ UNCHANGED <<grid, call, input, parsed>>

\* one iteration of the for loop: the handler ran and left st
Iteration(node, st) ==
    /\ ast' = Append(ast, node)
    /\ map' = st.map
    /\ redundant' = (redundant \/ st.redundant)
    /\ IF st.panic
       THEN pc' = "panicked" /\ UNCHANGED <<result, output>>
       ELSE IF st.err.tag # "None"
       THEN ReturnErr(st.err)
       ELSE pc' = "loop" /\ UNCHANGED <<result, output>>
    /\ unchecked' = (unchecked \/ st.unchecked)
    /\ UNCHANGED <<grid, call, input, parsed>>

HandleRect(rect) ==
    /\ pc = "loop"
    /\ LET location == NextLocation(rect.boolean_op)
       IN  Iteration([type |-> "Rect", shape |-> rect, location |-> location],
                     handle_rect(GenState(map), rect, location))

HandleLine(line) ==
    /\ pc = "loop"
    /\ LET location == NextLocation(line.boolean_op)
       IN  Iteration([type |-> "Line", shape |-> line, location |-> location],
                     handle_line(GenState(map), line, location))

HandleEntity(entity_node) ==
    /\ pc = "loop"
    /\ LET location == NextLocation("Or")
       IN  Iteration([type |-> "Entity", shape |-> entity_node, location |-> location],
                     handle_entity(GenState(map), entity_node, location))

\* the AST has no more nodes: generate_map returns Ok(map), compile_svg renders it
Finish ==
    /\ pc = "loop"
    /\ pc' = "done"
    /\ result' = [tag |-> "Ok", map |-> map]
    /\ \E dim \in 1..MaxDim : output' \in compile_svg_result(result', dim)
    /\ UNCHANGED <<grid, ast, map, redundant, call, input, parsed, unchecked>>

Next ==
    \/ GenerateMapStart
    \/ Len(ast) < MaxNodes /\ \E rect \in Rects : HandleRect(rect)
    \/ Len(ast) < MaxNodes /\ \E line \in Lines : HandleLine(line)
    \/ Len(ast) < MaxNodes /\ \E entity_node \in EntityNodes : HandleEntity(entity_node)
    \/ Finish

Spec == Init /\ [][Next]_vars

\* the rectangles of at least one cell that lie inside the grid of m
RoomRects(m) ==
    {r \in [point : GridPointsOf(m.width, m.height), width : 1..m.width,
            height : 1..m.height, boolean_op : Booleans] :
        r.point.x + r.width <= m.width /\ r.point.y + r.height <= m.height}

\* generation of a map from in-bounds rectangles only
NextRooms ==
    \/ GenerateMapStart
    \/ /\ pc = "loop"
       /\ Len(ast) < MaxRects
       /\ \E rect \in RoomRects(map) : HandleRect(rect)
    \/ Finish

SpecRooms == Init /\ [][NextRooms]_vars

\* the record of a direct call on the map: the call, the map before it, and
\* the call before it
Called(op, p1, p2) ==
    [tag |-> "Some", op |-> op, p1 |-> p1, p2 |-> p2, before |-> map,
     n |-> IF call.tag = "None" THEN 1 ELSE call.n + 1,
     last |-> IF call.tag = "None" THEN None
              ELSE [tag |-> "Some", op |-> call.op, p1 |-> call.p1, p2 |-> call.p2,
                    before |-> call.before]]

\* map.connect(p1, p2) called on a constructed map, as the tests of map.rs do
MapConnect(p1, p2) ==
    /\ pc = "loop"
    /\ IF unwrap_ok(map, p1, p2)
       THEN map' = connect(map, p1, p2) /\ pc' = pc
       ELSE pc' = "panicked" /\ UNCHANGED map
    /\ call' = Called("connect", p1, p2)
    /\ UNCHANGED <<grid, ast, redundant, result, output, input, parsed, unchecked>>

MapDisconnect(p1, p2) ==
    /\ pc = "loop"
    /\ IF unwrap_ok(map, p1, p2)
       THEN map' = disconnect(map, p1, p2) /\ pc' = pc
       ELSE pc' = "panicked" /\ UNCHANGED map
    /\ call' = Called("disconnect", p1, p2)
    /\ UNCHANGED <<grid, ast, redundant, result, output, input, parsed, unchecked>>

\* the points the direct calls are given
CallPoints == GridPointsOf(MaxCallCoord, MaxCallCoord)

CallsLeft == IF call.tag = "None" THEN TRUE ELSE call.n < MaxCalls

\* a map constructed by Map::new and used through connect / disconnect
NextMap ==
    \/ GenerateMapStart
    \/ CallsLeft /\ pc = "loop" /\ \E p1, p2 \in CallPoints : MapConnect(p1, p2)
    \/ CallsLeft /\ pc = "loop" /\ \E p1, p2 \in CallPoints : MapDisconnect(p1, p2)

SpecMap == Init /\ [][NextMap]_vars

\* a source line as the runs of its text: a whitespace between two lexemes
\* unless one of them is the comma
RECURSIVE LineChars(_, _)
LineChars(lexemes, k) ==
    IF k > Len(lexemes) THEN <<>>
    ELSE IF k = 1 \/ lexemes[k] = Comma \/ lexemes[k - 1] = Comma
    THEN <<lexemes[k]>> \o LineChars(lexemes, k + 1)
    ELSE <<Whitespace, lexemes[k]>> \o LineChars(lexemes, k + 1)

\* the source text of the lines, a newline between two lines
RECURSIVE Text(_, _)
Text(lines, k) ==
    IF k > Len(lines) THEN <<>>
    ELSE IF k = 1 THEN LineChars(lines[k], 1) \o Text(lines, k + 1)
    ELSE <<Newline>> \o LineChars(lines[k], 1) \o Text(lines, k + 1)

\* declarations of the language, well-formed and not
Declarations ==
    LET K(text) == Alphabetic(text)
        N(n) == Digits([tag |-> "Ok", n |-> n], 1)
    IN  { <<K("grid"), N(1), Comma, N(1)>>,
          <<K("rect"), K("at"), N(0), Comma, N(0), K("width"), N(1), K("height"), N(1)>>,
          <<K("xor"), K("rect"), K("at"), N(0), Comma, N(0), K("width"), N(1),
            K("height"), N(1)>>,
          <<K("line"), K("along"), K("left"), K("from"), N(0), Comma, N(0),
            K("length"), N(1)>>,
          <<K("xor"), K("line"), K("along"), K("top"), K("from"), N(0), Comma, N(0),
            K("length"), N(1)>>,
          <<K("line"), K("along"), K("at")>>,
          <<K("entity"), K("circle"), K("at"), N(0), Comma, N(0), K("radius"), N(1)>>,
          <<K("entity"), K("circle"), K("within"), N(0), Comma, N(0)>>,
          <<K("entity"), K("square"), K("within"), N(0), Comma, N(0)>>,
          <<K("entity"), K("square"), K("at"), N(0), Comma, N(0)>>,
          <<K("entity"), K("stair"), K("within"), N(0), Comma, N(0)>>,
          <<K("entity"), K("circle"), K("rect")>>,
          <<K("xor"), K("entity"), K("circle"), K("within"), N(0), Comma, N(0)>>,
          <<K("xor"), K("xor")>>,
          <<K("xor"), N(1)>>,
          <<K("wall")>>,
          <<Digits([tag |-> "Err"], 10)>>,
          <<OtherChar>>,
          <<CommentChar, K("wall"), OtherChar>> }

\* the lines a source text is written from: the declarations and what is left
\* of one that ends early
InputLines == UNION {{SubSeq(d, 1, k) : k \in 1..Len(d)} : d \in Declarations}

\* one more line is written to the source text
WriteLine(line) ==
    /\ parsed = None
    /\ Len(input) < MaxLines
    /\ input' = Append(input, line)
    /\ UNCHANGED <<pc, grid, ast, map, redundant, result, output, call, parsed,
                   unchecked>>

\* parser::parse on the source text
Parse ==
    /\ parsed = None
    /\ parsed' = parse(Text(input, 1))
    /\ UNCHANGED <<pc, grid, ast, map, redundant, result, output, call, input,
                   unchecked>>

NextParse ==
    \/ \E line \in InputLines : WriteLine(line)
    \/ Parse

SpecParse == Init /\ [][NextParse]_vars

(* ------------------------- vocabulary of the claims -------------------- *)
\* generation has processed every node of ast without an error
Generated == pc = "loop" \/ (pc = "done" /\ result.tag = "Ok")

\* generate_map has constructed its map
HasMap == pc # "start" /\ grid.tag = "Some"

\* generate_map returned an error
Failed == pc = "done" /\ result.tag = "Err"

\* the unit segments of the grid: a point and its right or lower neighbour
GridSegments(m) ==
    {<<p, q>> \in GridPoints(m) \X GridPoints(m) : q = right(p) \/ q = down(p)}

SameSegment(s, t) == {s[1], s[2]} = {t[1], t[2]}

\* the unit segments a rectangle traces: top, left, bottom, right
RectTouches(rect) ==
    [k \in 1..(2 * (rect.width + rect.height)) |->
        IF k <= rect.width THEN RectSegment(rect, "top", k - 1)
        ELSE IF k <= rect.width + rect.height
        THEN RectSegment(rect, "left", k - 1 - rect.width)
        ELSE IF k <= 2 * rect.width + rect.height
        THEN RectSegment(rect, "bottom", k - 1 - rect.width - rect.height)
        ELSE RectSegment(rect, "right", k - 1 - 2 * rect.width - rect.height)]

\* the i-th point of a line, counted from its effective start
LinePoint(line, i) ==
    LET s == line_start(line)
    IN  IF line.orientation \in {"Left", "Right"}
        THEN point(s.x, s.y + i) ELSE point(s.x + i, s.y)

LineTouches(line) ==
    [k \in 1..line.length |-> <<LinePoint(line, k - 1), LinePoint(line, k)>>]

Touches(node) ==
    CASE node.type = "Rect" -> RectTouches(node.shape)
      [] node.type = "Line" -> LineTouches(node.shape)
      [] OTHER -> <<>>

RECURSIVE FoldTouches(_, _, _, _, _)
\* the value of segment seg after the touches i.. of one declaration
FoldTouches(touches, op, seg, i, v) ==
    IF i > Len(touches) THEN v
    ELSE IF SameSegment(touches[i], seg)
    THEN FoldTouches(touches, op, seg, i + 1, IF op = "Or" THEN TRUE ELSE ~v)
    ELSE FoldTouches(touches, op, seg, i + 1, v)

RECURSIVE FoldAst(_, _, _, _)
\* the Boolean fold, from v, of the declarations k.. of nodes over segment seg
FoldAst(nodes, seg, k, v) ==
    IF k > Len(nodes) THEN v
    ELSE IF nodes[k].type = "Entity" THEN FoldAst(nodes, seg, k + 1, v)
    ELSE FoldAst(nodes, seg, k + 1,
                 FoldTouches(Touches(nodes[k]), nodes[k].shape.boolean_op, seg, 1, v))

(* --------------------------------- C1 ---------------------------------- *)
\* C1: after any sequence of in-bounds rect / line declarations, every unit
\* segment is connected exactly when the fold of the touches of the
\* declarations, in order and from false (Or sets true, Xor negates), is true.
C1_SegmentIsFoldOfTouches ==
    Generated =>
        \A seg \in GridSegments(map) :
            are_connected(map, seg[1], seg[2]) = FoldAst(ast, seg, 1, FALSE)

(* --------------------------------- C2 ---------------------------------- *)
\* the Xor policy of handle_rect_points / handle_line on one pair
XorPolicy(m, p1, p2) ==
    handle_rect_points(GenState(m),
                       [point |-> p1, width |-> 1, height |-> 0, boolean_op |-> "Xor"],
                       p1, p2, [line |-> 1, col |-> 1]).map

\* C2: from every map state reached by generation, applying the Xor policy
\* twice to a pair of adjacent points leaves are_connected of the pair as it was.
C2_XorTwiceIsInvolution ==
    Generated =>
        \A seg \in GridSegments(map) :
            are_connected(XorPolicy(XorPolicy(map, seg[1], seg[2]), seg[1], seg[2]),
                          seg[1], seg[2])
                = are_connected(map, seg[1], seg[2])

(* --------------------------------- C9 ---------------------------------- *)
\* a handle occurs twice in some adjacency list
HasDuplicateNeighbour(graph) ==
    \E h \in DOMAIN graph.nodes :
        \E i, j \in 1..Len(graph.nodes[h].edges) :
            i # j /\ graph.nodes[h].edges[i] = graph.nodes[h].edges[j]

\* C9: generation never calls Graph::add_edge for two nodes that already have
\* an edge, so no adjacency list holds the same neighbour handle twice.
C9_NoRedundantAddEdge ==
    /\ ~redundant
    /\ HasMap => ~HasDuplicateNeighbour(map.graph)

(* ------------------------------ C3, C4, C5 ----------------------------- *)
Handle(m, p) == find_node(m, p)

\* the pairs of adjacent grid points that are connected
ConnectedPairs(m) ==
    {{seg[1], seg[2]} : seg \in {t \in GridSegments(m) : are_connected(m, t[1], t[2])}}

PerimeterPairs(rect) ==
    {{RectTouches(rect)[k][1], RectTouches(rect)[k][2]} :
        k \in 1..Len(RectTouches(rect))}

PerimeterPoints(rect) == UNION PerimeterPairs(rect)

PerimeterHandles(m, rect) == {Handle(m, p) : p \in PerimeterPoints(rect)}

\* the grid cells, named by their upper left corner, and a ring of cells around
Cells(m) == (-1..m.width) \X (-1..m.height)

GridCells(m) == (0..(m.width - 1)) \X (0..(m.height - 1))

\* the unit segment between cell c and its neighbour c + d
CellWall(c, d) ==
    CASE d = <<1, 0>>  -> <<point(c[1] + 1, c[2]), point(c[1] + 1, c[2] + 1)>>
      [] d = <<-1, 0>> -> <<point(c[1], c[2]), point(c[1], c[2] + 1)>>
      [] d = <<0, 1>>  -> <<point(c[1], c[2] + 1), point(c[1] + 1, c[2] + 1)>>
      [] d = <<0, -1>> -> <<point(c[1], c[2]), point(c[1] + 1, c[2])>>

Directions == {<<1, 0>>, <<-1, 0>>, <<0, 1>>, <<0, -1>>}

Walled(m, c, d) ==
    LET w == CellWall(c, d)
    IN  /\ w[1] \in GridPoints(m)
        /\ w[2] \in GridPoints(m)
        /\ are_connected(m, w[1], w[2])

\* the cells one step from c with no connected segment in between
OpenNeighbours(m, c) ==
    {n \in Cells(m) : \E d \in Directions :
        n = <<c[1] + d[1], c[2] + d[2]>> /\ ~Walled(m, c, d)}

RECURSIVE Flood(_, _, _)
\* the cells reachable from the frontier without crossing a connected segment
Flood(m, frontier, region) ==
    IF frontier = {} THEN region
    ELSE LET reached == region \cup frontier
         IN  Flood(m, (UNION {OpenNeighbours(m, c) : c \in frontier}) \ reached, reached)

\* the enclosed regions: the regions of cells that do not reach the ring
Rooms(m) ==
    LET outside == Flood(m, {<<-1, -1>>}, {})
    IN  {Flood(m, {c}, {}) : c \in GridCells(m) \ outside}

\* the handles of the points on the connected segments that bound a room
RoomBoundary(m, room) ==
    UNION {{Handle(m, CellWall(cd[1], cd[2])[1]), Handle(m, CellWall(cd[1], cd[2])[2])} :
             cd \in {x \in room \X Directions :
                       <<x[1][1] + x[2][1], x[1][2] + x[2][2]>> \notin room}}

\* C3: for a map generated from in-bounds rectangles, find_cycles returns one
\* cycle per enclosed room: as many cycles as rooms, each cycle's node set the
\* boundary of a room, no node set twice.
C3_OneCyclePerRoom ==
    Generated /\ HasMap =>
        LET cycles == find_cycles(map.graph)
            rooms == Rooms(map)
        IN  /\ Len(cycles) = Cardinality(rooms)
            /\ \A i \in 1..Len(cycles) :
                   NodeSet(cycles[i]) \in {RoomBoundary(map, r) : r \in rooms}
            /\ \A i, j \in 1..Len(cycles) :
                   i # j => NodeSet(cycles[i]) # NodeSet(cycles[j])

\* C4: when the connected segments are exactly the perimeter of one in-bounds
\* w x h rectangle, find_cycles returns one cycle and its node set is the
\* 2(w+h) perimeter points.
C4_RectangleIsOneCycle ==
    Generated /\ HasMap =>
        \A rect \in RoomRects(map) :
            ConnectedPairs(map) = PerimeterPairs(rect) =>
                LET cycles == find_cycles(map.graph)
                IN  /\ Len(cycles) = 1
                    /\ NodeSet(cycles[1]) = PerimeterHandles(map, rect)
                    /\ Cardinality(NodeSet(cycles[1])) = 2 * (rect.width + rect.height)

\* C5: when the connected segments are exactly the perimeters of two rectangles
\* with no common grid point, the components of more than one node are the two
\* perimeters and find_cycles returns two cycles, one per perimeter.
C5_TwoDisjointRectangles ==
    Generated /\ HasMap =>
        \A r1, r2 \in RoomRects(map) :
            (/\ PerimeterPoints(r1) \cap PerimeterPoints(r2) = {}
             /\ ConnectedPairs(map) = PerimeterPairs(r1) \cup PerimeterPairs(r2)) =>
                LET cycles == find_cycles(map.graph)
                    cc == connected_components(map.graph)
                    big == SelectSeq(cc, LAMBDA c : Len(c) > 1)
                    both == {PerimeterHandles(map, r1), PerimeterHandles(map, r2)}
                IN  /\ Len(big) = 2
                    /\ {NodeSet(big[k]) : k \in 1..Len(big)} = both
                    /\ Len(cycles) = 2
                    /\ {NodeSet(cycles[k]) : k \in 1..Len(cycles)} = both

(* --------------------------------- C6 ---------------------------------- *)
IsCircleAt(node) ==
    node.type = "Entity" /\ node.shape.shape.kind = "Circle" /\ node.shape.position = "At"

\* the centre and the four cardinal extent points of a circle all exist
ExtentExists(m, c, r) ==
    /\ point_exists(m, c)
    /\ r <= c.x /\ point_exists(m, point(c.x - r, c.y))
    /\ point_exists(m, point(c.x + r, c.y))
    /\ r <= c.y /\ point_exists(m, point(c.x, c.y - r))
    /\ point_exists(m, point(c.x, c.y + r))

\* node k of ast was processed without an error
Succeeded(k) == k < Len(ast) \/ Generated

\* the entities of the entity nodes among the first k nodes, in order
RECURSIVE EntitiesOf(_, _)
EntitiesOf(nodes, k) ==
    IF k = 0 THEN <<>>
    ELSE IF nodes[k].type = "Entity"
    THEN Append(EntitiesOf(nodes, k - 1),
                Entity_new(nodes[k].shape.shape, nodes[k].shape.point,
                           nodes[k].shape.position))
    ELSE EntitiesOf(nodes, k - 1)

\* C6: a circle placed At c with radius r is attached only if c and its four
\* cardinal extent points exist; otherwise generation fails with OutOfBounds
\* and the entity is not attached.
C6_CircleAtNeedsExtent ==
    HasMap =>
        \A k \in 1..Len(ast) :
            IsCircleAt(ast[k]) =>
                LET c == ast[k].shape.point
                    r == ast[k].shape.shape.radius
                IN  /\ Succeeded(k) =>
                          /\ ExtentExists(map, c, r)
                          /\ SubSeq(map.entities, 1, Len(EntitiesOf(ast, k)))
                                = EntitiesOf(ast, k)
                    /\ ~ExtentExists(map, c, r) =>
                          /\ k = Len(ast)
                          /\ Failed
                          /\ result.error.error_type = "OutOfBounds"
                          /\ map.entities = EntitiesOf(ast, k - 1)

(* --------------------------------- C7 ---------------------------------- *)
IsShape(node) == node.type \in {"Rect", "Line"}

\* the touches of a shape that have an endpoint failing point_exists
BadTouches(m, node) ==
    {i \in 1..Len(Touches(node)) :
        \/ ~point_exists(m, Touches(node)[i][1])
        \/ ~point_exists(m, Touches(node)[i][2])}

Min(S) == CHOOSE i \in S : \A j \in S : i <= j

\* the number of touches of a shape that precede its first bad touch
GoodPrefix(m, node) ==
    IF BadTouches(m, node) = {} THEN Len(Touches(node))
    ELSE Min(BadTouches(m, node)) - 1

\* the Or / Xor policy on one segment whose endpoints exist
ApplyTouch(m, op, p1, p2) ==
    IF op = "Xor" /\ are_connected(m, p1, p2) THEN disconnect(m, p1, p2)
    ELSE connect(m, p1, p2)

RECURSIVE ApplyTouches(_, _, _, _)
\* the map after the Or / Xor policy on touches i..n of a shape, in order
ApplyTouches(m, node, i, n) ==
    IF i > n THEN m
    ELSE ApplyTouches(ApplyTouch(m, node.shape.boolean_op,
                                 Touches(node)[i][1], Touches(node)[i][2]),
                      node, i + 1, n)

RECURSIVE Replay(_, _, _)
\* generate_map's loop over the nodes k.. as a function of the map state
Replay(nodes, k, st) ==
    IF k > Len(nodes) \/ Stopped(st) THEN st
    ELSE Replay(nodes, k + 1,
                CASE nodes[k].type = "Rect" ->
                        handle_rect(st, nodes[k].shape, nodes[k].location)
                  [] nodes[k].type = "Line" ->
                        handle_line(st, nodes[k].shape, nodes[k].location)
                  [] nodes[k].type = "Entity" ->
                        handle_entity(st, nodes[k].shape, nodes[k].location))

\* the map before the last node of ast was processed
MapBeforeLast ==
    Replay(SubSeq(ast, 1, Len(ast) - 1), 1, GenState(Map_new(grid.width, grid.height))).map

\* C7: a rectangle or line fails, with OutOfBounds at its own line and column,
\* exactly when one of the unit segments it traces has an endpoint that fails
\* point_exists; the failure comes at the first such segment in tracing order
\* (all segments before it have been applied, none after), and a shape with
\* no such segment is processed whole and without error.
C7_ShapeFailsAtFirstBadSegment ==
    (HasMap /\ Len(ast) > 0 /\ IsShape(ast[Len(ast)])) =>
        LET node == ast[Len(ast)]
        IN  /\ pc # "panicked"
            /\ Failed <=> BadTouches(map, node) # {}
            /\ Failed => result.error = CompileError_new("OutOfBounds", node.location.line,
                                                         node.location.col)
            /\ map = ApplyTouches(MapBeforeLast, node, 1, GoodPrefix(map, node))

\* a shape failed after some of its segments had been applied
C7_Witness ==
    /\ HasMap /\ Len(ast) > 0 /\ IsShape(ast[Len(ast)])
    /\ Failed
    /\ GoodPrefix(map, ast[Len(ast)]) > 0
    /\ map # MapBeforeLast

(* --------------------------------- C8 ---------------------------------- *)
\* node k of ast is a declaration that generation rejects
NodeFails(k) ==
    IF IsShape(ast[k]) THEN BadTouches(map, ast[k]) # {}
    ELSE handle_entity(GenState(map), ast[k].shape, ast[k].location).err.tag = "Err"

\* C8: when generation fails, generate_map returns the error alone (no map),
\* compile_svg returns one diagnostic line for that error and no SVG element,
\* and the error is that of the first failing declaration, the last one taken.
C8_FailureReplacesResult ==
    /\ Failed =>
          /\ DOMAIN result = {"tag", "error"}
          /\ output = [tag |-> "Diagnostic", line |-> result.error.location.line,
                       col |-> result.error.location.col,
                       message |-> error_message(result.error.error_type)]
          /\ IF grid.tag = "None"
             THEN ast = <<>> /\ result.error = CompileError_new("NoGridDimensions", 1, 1)
             ELSE /\ Len(ast) > 0
                  /\ NodeFails(Len(ast))
                  /\ result.error = out_of_bounds(ast[Len(ast)].location)
    /\ HasMap => \A k \in 1..Len(ast) : NodeFails(k) => (k = Len(ast) /\ Failed)
    /\ grid.tag = "None" /\ pc # "start" => Failed

\* generation failed at the second node after the first had changed the map
C8_Witness ==
    /\ Failed /\ Len(ast) = 2
    /\ output.tag = "Diagnostic"
    /\ (ConnectedPairs(map) # {} \/ map.entities # <<>>)

(* --------------------------------- C10 --------------------------------- *)
\* are_connected over all pairs of grid points
Connectivity(m) ==
    [pq \in GridPoints(m) \X GridPoints(m) |-> are_connected(m, pq[1], pq[2])]

\* the last call connected two points that were not connected
ConnectedFresh ==
    /\ call.tag = "Some" /\ call.op = "connect"
    /\ point_exists(call.before, call.p1) /\ point_exists(call.before, call.p2)
    /\ ~are_connected(call.before, call.p1, call.p2)

\* the last two calls were connect(p1, p2) from unconnected, then disconnect(p1, p2)
RoundTrip ==
    /\ call.tag = "Some" /\ call.op = "disconnect"
    /\ call.last.tag = "Some" /\ call.last.op = "connect"
    /\ call.last.p1 = call.p1 /\ call.last.p2 = call.p2
    /\ point_exists(call.before, call.p1) /\ point_exists(call.before, call.p2)
    /\ ~are_connected(call.last.before, call.p1, call.p2)

\* C10: connect(p1, p2) of two unconnected existing points makes are_connected
\* true in both argument orders; a following disconnect(p1, p2) makes it false
\* again and leaves are_connected of every other pair as before the connect.
C10_ConnectDisconnectRoundTrip ==
    /\ ConnectedFresh =>
          /\ are_connected(map, call.p1, call.p2)
          /\ are_connected(map, call.p2, call.p1)
    /\ RoundTrip =>
          /\ ~are_connected(map, call.p1, call.p2)
          /\ ~are_connected(map, call.p2, call.p1)
          /\ Connectivity(map) = Connectivity(call.last.before)

\* a round trip on a map that has other edges at one of the two points
C10_Witness ==
    /\ RoundTrip
    /\ call.p1 # call.p2
    /\ map.graph.nodes[Handle(map, call.p1)].edges # <<>>

(* --------------------------------- C11 --------------------------------- *)
\* a pair of grid points one unit step apart
Adjacent(p, q) ==
    \/ p.y = q.y /\ (q.x = p.x + 1 \/ p.x = q.x + 1)
    \/ p.x = q.x /\ (q.y = p.y + 1 \/ p.y = q.y + 1)

\* the unit segments on the perimeter of rect: rows y and y+h between the
\* columns x and x+w, columns x and x+w between the rows y and y+h
OnPerimeter(rect, p, q) ==
    LET x == rect.point.x
        y == rect.point.y
        w == rect.width
        h == rect.height
    IN  /\ Adjacent(p, q)
        /\ \A r \in {p, q} : x <= r.x /\ r.x <= x + w /\ y <= r.y /\ r.y <= y + h
        /\ \/ p.y = q.y /\ p.y \in {y, y + h}
           \/ p.x = q.x /\ p.x \in {x, x + w}

\* the only declaration processed is one Or rectangle of at least one cell
\* that lies inside the grid
OneOrRect ==
    /\ HasMap /\ Generated /\ Len(ast) = 1
    /\ ast[1].type = "Rect" /\ ast[1].shape.boolean_op = "Or"
    /\ ast[1].shape.width >= 1 /\ ast[1].shape.height >= 1
    /\ ast[1].shape.point.x + ast[1].shape.width <= map.width
    /\ ast[1].shape.point.y + ast[1].shape.height <= map.height

\* C11: an Or rectangle of at least one cell inside the grid, applied to a
\* fresh map, connects every unit segment of its perimeter and no other pair
\* of adjacent grid points (not the segments prolonging a side past a corner).
C11_OrRectConnectsItsPerimeter ==
    OneOrRect =>
        \A p, q \in GridPoints(map) :
            Adjacent(p, q) =>
                (are_connected(map, p, q) <=> OnPerimeter(ast[1].shape, p, q))

\* the grid has segments prolonging the rectangle's sides past its corners
C11_Witness ==
    /\ OneOrRect
    /\ ast[1].shape.point.x >= 1
    /\ ast[1].shape.point.x + ast[1].shape.width < map.width
    /\ ast[1].shape.point.y + ast[1].shape.height < map.height
    /\ are_connected(map, ast[1].shape.point, right(ast[1].shape.point))

(* --------------------------------- C12 --------------------------------- *)
\* a rectangle of at least one cell
IsRoom(node) == node.type = "Rect" /\ node.shape.width >= 1 /\ node.shape.height >= 1

\* the unit segments that lie on the right side of r1 and on the left side of r2
SharedSide(m, r1, r2) ==
    {seg \in GridSegments(m) :
        /\ seg[1].x = r2.point.x /\ seg[2].x = r2.point.x
        /\ OnPerimeter(r1, seg[1], seg[2])
        /\ OnPerimeter(r2, seg[1], seg[2])}

\* the declarations processed are an Or rectangle and then an Xor rectangle
\* whose left side runs along the first one's right side
OrThenXor ==
    /\ HasMap /\ Generated /\ Len(ast) = 2
    /\ IsRoom(ast[1]) /\ ast[1].shape.boolean_op = "Or"
    /\ IsRoom(ast[2]) /\ ast[2].shape.boolean_op = "Xor"
    /\ ast[2].shape.point.x = ast[1].shape.point.x + ast[1].shape.width
    /\ SharedSide(map, ast[1].shape, ast[2].shape) # {}

\* C12: after an Or rectangle and an Xor rectangle whose left side coincides
\* with segments of the first one's right side, the shared segments are
\* disconnected and every perimeter segment of only one of the two rectangles
\* is connected.
C12_XorOpensSharedSide ==
    OrThenXor =>
        LET r1 == ast[1].shape
            r2 == ast[2].shape
        IN  /\ \A seg \in SharedSide(map, r1, r2) :
                  ~are_connected(map, seg[1], seg[2])
            /\ \A seg \in GridSegments(map) :
                  (OnPerimeter(r1, seg[1], seg[2]) # OnPerimeter(r2, seg[1], seg[2]))
                      => are_connected(map, seg[1], seg[2])

\* the two sides overlap only in part
C12_Witness ==
    /\ OrThenXor
    /\ ast[1].shape.height # ast[2].shape.height
    /\ ~are_connected(map, ast[2].shape.point, down(ast[2].shape.point))

(* --------------------------------- C13 --------------------------------- *)
\* q_i of a line: q_0 is the declared start, moved one step right for Right
\* and one step down for Bottom; q_i lies i steps below q_0 for Left / Right
\* and i steps to the right of q_0 for Top / Bottom
LineQ(line, i) ==
    LET x0 == line.start.x + (IF line.orientation = "Right" THEN 1 ELSE 0)
        y0 == line.start.y + (IF line.orientation = "Bottom" THEN 1 ELSE 0)
    IN  IF line.orientation \in {"Left", "Right"}
        THEN [x |-> x0, y |-> y0 + i]
        ELSE [x |-> x0 + i, y |-> y0]

LineSegments(line) == {{LineQ(line, i), LineQ(line, i + 1)} : i \in 0..(line.length - 1)}

\* the only declaration processed is one Or line, without an error
OneOrLine ==
    /\ HasMap /\ Generated /\ Len(ast) = 1
    /\ ast[1].type = "Line" /\ ast[1].shape.boolean_op = "Or"

\* C13: an in-bounds Or line of orientation o, start s and length n on a fresh
\* map connects exactly the segments (q_i, q_i+1), 0 <= i < n, and no other
\* pair of points.
C13_LineConnectsItsSegments ==
    OneOrLine =>
        \A p, q \in GridPoints(map) :
            are_connected(map, p, q) <=> {p, q} \in LineSegments(ast[1].shape)

\* a line of two segments whose effective start is shifted
C13_Witness ==
    /\ OneOrLine
    /\ ast[1].shape.orientation \in {"Right", "Bottom"}
    /\ ast[1].shape.length = 2
    /\ are_connected(map, LineQ(ast[1].shape, 1), LineQ(ast[1].shape, 2))

(* --------------------------------- C14 --------------------------------- *)
\* the map is as Map::new made it: no declaration processed, no call made
FreshMap == HasMap /\ pc = "loop" /\ ast = <<>> /\ call.tag = "None"

\* C14: for every width and height >= 0 a freshly constructed map has no two
\* adjacent grid intersections connected, and no entities.
C14_FreshMapIsUnconnected ==
    FreshMap =>
        /\ \A p, q \in GridPoints(map) : Adjacent(p, q) => ~are_connected(map, p, q)
        /\ map.entities = <<>>

\* a fresh map that has adjacent intersections in both directions
C14_Witness == FreshMap /\ map.width >= 1 /\ map.height >= 1

(* --------------------------------- C15 --------------------------------- *)
\* the linearized key of a grid point
Key(m, p) == p.x + (m.width + 1) * p.y

\* C15: the map always has exactly (width+1)*(height+1) nodes, one per grid
\* intersection; the key x + (width+1)*y maps one-to-one onto the handles,
\* each key to the node whose payload is Point(x, y); the size, the node set,
\* the payloads and the mapping are the same after every connect, disconnect,
\* add_entity and generation step.
C15_OneNodePerIntersection ==
    HasMap =>
        /\ map.width = grid.width /\ map.height = grid.height
        /\ NodeCount(map.graph) = (map.width + 1) * (map.height + 1)
        /\ DOMAIN map.graph.nodes = 0..((map.width + 1) * (map.height + 1) - 1)
        /\ DOMAIN map.point_nodes = {Key(map, p) : p \in GridPoints(map)}
        /\ \A p \in GridPoints(map) :
              /\ map.point_nodes[Key(map, p)] \in DOMAIN map.graph.nodes
              /\ map.graph.nodes[map.point_nodes[Key(map, p)]].data = p
        /\ \A p, q \in GridPoints(map) :
              map.point_nodes[Key(map, p)] = map.point_nodes[Key(map, q)] => p = q
        /\ {map.point_nodes[k] : k \in DOMAIN map.point_nodes} = DOMAIN map.graph.nodes

\* edges were added and removed and an entity attached
C15_Witness ==
    /\ HasMap /\ Generated /\ Len(ast) = 2
    /\ map.width >= 1 /\ map.height >= 1
    /\ ast[1].type \in {"Rect", "Line"} /\ ast[1].shape.boolean_op = "Xor"
    /\ ConnectedPairs(map) # {}
    /\ map.entities # <<>>

(* --------------------------------- C16 --------------------------------- *)
\* the points point_exists is asked about, inside and outside the grid
ProbePoints == {[x |-> x, y |-> y] : x \in 0..MaxProbe, y \in 0..MaxProbe}

\* the key of p is the key of a grid intersection other than p
KeyCollides(m, p) == p \notin GridPoints(m) /\ Key(m, p) \in DOMAIN m.point_nodes

\* C16: point_exists(p) is true exactly when p.x <= width and p.y <= height,
\* for every point with non-negative coordinates, also when the key
\* x + (width+1)*y of p is the key of a point inside the grid.
C16_PointExistsIffInRange ==
    HasMap =>
        \A p \in ProbePoints :
            point_exists(map, p) <=> (p.x <= map.width /\ p.y <= map.height)

\* a shape was rejected at a segment whose endpoint lies outside the grid and
\* has the key of a grid intersection
C16_Witness ==
    /\ HasMap /\ Failed /\ Len(ast) = 1 /\ IsShape(ast[1])
    /\ LET seg == Touches(ast[1])[Min(BadTouches(map, ast[1]))]
       IN  \E k \in 1..2 : KeyCollides(map, seg[k]) /\ ~point_exists(map, seg[k])

(* --------------------------------- C17 --------------------------------- *)
\* the number of occurrences of handle h in an adjacency list
Occurrences(edges, h) == Cardinality({k \in 1..Len(edges) : edges[k] = h})

\* C17: after any sequence of add_edge and remove_edge calls adjacency is
\* symmetric: b occurs in a's adjacency list as often as a occurs in b's, and
\* is_edge_between(a, b) = is_edge_between(b, a).
C17_AdjacencyIsSymmetric ==
    HasMap =>
        \A a, b \in DOMAIN map.graph.nodes :
            /\ Occurrences(map.graph.nodes[a].edges, b)
                 = Occurrences(map.graph.nodes[b].edges, a)
            /\ is_edge_between(map.graph, a, b) = is_edge_between(map.graph, b, a)

\* an edge between two distinct nodes was added twice and removed once
C17_Witness ==
    /\ HasMap /\ pc = "loop"
    /\ call.tag = "Some" /\ call.op = "disconnect"
    /\ call.p1 # call.p2
    /\ point_exists(map, call.p1) /\ point_exists(map, call.p2)
    /\ Occurrences(call.before.graph.nodes[Handle(map, call.p1)].edges,
                   Handle(map, call.p2)) = 2
    /\ Occurrences(map.graph.nodes[Handle(map, call.p1)].edges,
                   Handle(map, call.p2)) = 1

(* --------------------------------- C18 --------------------------------- *)
\* the last call was a disconnect that reached Graph::remove_edge for two
\* nodes with no edge between them
RemovedAbsentEdge ==
    /\ HasMap /\ call.tag = "Some" /\ call.op = "disconnect"
    /\ unwrap_ok(call.before, call.p1, call.p2)
    /\ ~is_edge_between(call.before.graph, find_node(call.before, call.p1),
                        find_node(call.before, call.p2))

\* C18: remove_edge on two nodes with no edge between them changes nothing:
\* every adjacency list, every payload and the node count stay as they were.
C18_RemoveAbsentEdgeIsNoOp ==
    RemovedAbsentEdge =>
        /\ NodeCount(map.graph) = NodeCount(call.before.graph)
        /\ \A h \in DOMAIN call.before.graph.nodes :
              /\ map.graph.nodes[h].edges = call.before.graph.nodes[h].edges
              /\ map.graph.nodes[h].data = call.before.graph.nodes[h].data
        /\ map = call.before

\* the two nodes have no edge between them and one of them has other edges
C18_Witness ==
    /\ RemovedAbsentEdge
    /\ call.p1 # call.p2
    /\ map.graph.nodes[find_node(map, call.p1)].edges # <<>>

(* --------------------------------- C19 --------------------------------- *)
RECURSIVE ReachableFrom(_, _)
\* the handles joined to a handle of `seen` by a path of edges
ReachableFrom(graph, seen) ==
    LET more == {b \in DOMAIN graph.nodes :
                    \E a \in seen : Node_has_edge(graph.nodes[a], b)
                                    \/ Node_has_edge(graph.nodes[b], a)}
    IN  IF more \subseteq seen THEN seen ELSE ReachableFrom(graph, seen \cup more)

RECURSIVE TotalLen(_, _)
TotalLen(seqs, k) == IF k = 0 THEN 0 ELSE Len(seqs[k]) + TotalLen(seqs, k - 1)

\* components is a partition of the handles of graph into the classes of
\* "joined by a path", each class led by its lowest handle, the classes in
\* ascending order of their first handles
IsComponentList(graph, components) ==
    /\ TotalLen(components, Len(components)) = NodeCount(graph)
    /\ UNION {NodeSet(components[k]) : k \in 1..Len(components)} = DOMAIN graph.nodes
    /\ \A k \in 1..Len(components) :
          /\ components[k] # <<>>
          /\ NodeSet(components[k]) = ReachableFrom(graph, {components[k][1]})
          /\ \A h \in NodeSet(components[k]) : components[k][1] <= h
    /\ \A j, k \in 1..Len(components) : j < k => components[j][1] < components[k][1]

\* C19: connected_components returns a partition of all nodes, every handle
\* once; two handles share a component exactly when a path of edges joins
\* them; a component starts with its lowest handle and the components come in
\* ascending order of their first handles.
C19_ComponentsPartitionTheNodes ==
    (HasMap /\ Generated) => IsComponentList(map.graph, connected_components(map.graph))

\* a generated map with a component of a loop, one of a single edge and
\* isolated nodes
C19_Witness ==
    /\ HasMap /\ pc = "done" /\ result.tag = "Ok"
    /\ LET cc == connected_components(map.graph)
       IN  /\ \E k \in 1..Len(cc) : Len(cc[k]) >= 4
           /\ \E k \in 1..Len(cc) : Len(cc[k]) = 2
           /\ \E k \in 1..Len(cc) : Len(cc[k]) = 1

(* --------------------------------- C20 --------------------------------- *)
\* compile_svg rendered a generated map that has no edge and no entity
RenderedEmptyMap ==
    /\ HasMap /\ pc = "done" /\ result.tag = "Ok"
    /\ \A h \in DOMAIN map.graph.nodes : map.graph.nodes[h].edges = <<>>
    /\ map.entities = <<>>

\* C20: rendering a map with no edges and no entities emits exactly
\* width * height background cell rectangles, one per grid cell, and no
\* polygon, path or entity primitive.
C20_EmptyMapRendersOnlyCells ==
    RenderedEmptyMap =>
        /\ output.tag = "Svg"
        /\ Len(output.elements) = map.width * map.height
        /\ \A k \in 1..Len(output.elements) :
              /\ output.elements[k].tag = "rect"
              /\ output.elements[k].colour = "LIGHT_GRAY"
              /\ output.elements[k].width = output.elements[k].height
              /\ output.width = output.elements[k].width * map.width
              /\ output.height = output.elements[k].height * map.height
        /\ \A i \in 0..(map.width - 1), j \in 0..(map.height - 1) :
              \E k \in 1..Len(output.elements) :
                  output.elements[k].p = [x |-> i * output.elements[k].width,
                                          y |-> j * output.elements[k].height]

\* the rendered empty map has several rows and columns of cells
C20_Witness ==
    /\ RenderedEmptyMap
    /\ map.width >= 2 /\ map.height >= 2
    /\ output.tag = "Svg" /\ output.elements # <<>>

(* --------------------------------- C21 --------------------------------- *)
\* compile_svg has rendered the map of a successful generation
Rendered == HasMap /\ pc = "done" /\ result.tag = "Ok"

\* C21: rendering the map of a successful generation at any cell dimension
\* >= 1 completes and returns an SVG document, without arithmetic underflow
\* (also for a Circle placed Within, of radius half the cell minus one) and
\* without a failed unwrap or index.
C21_RenderIsTotal ==
    Rendered =>
        /\ output.tag = "Svg"
        /\ \A k \in 1..Len(output.elements) :
              output.elements[k].tag = "circle"
                  => output.elements[k].radius # WrappedMinusOne

(* --------------------------------- C22 --------------------------------- *)
\* C22: every CompileError produced by lexing, parsing or generation carries
\* a 1-based position, line >= 1 and col >= 1, for every input, inputs that
\* end in the middle of a declaration included
C22_ErrorsArePositioned ==
    /\ parsed.tag = "Err" => parsed.error.location.line >= 1
                             /\ parsed.error.location.col >= 1
    /\ result.tag = "Err" => result.error.location.line >= 1
                             /\ result.error.location.col >= 1

(* --------------------------------- C26 --------------------------------- *)
\* the tokens of the source text, where lexing succeeds
InputTokens == lex(Text(input, 1))

\* an `xor` token that is not immediately followed by `rect` or `line`
XorMisplaced(tokens) ==
    \E k \in 1..Len(tokens) :
        /\ tokens[k].token_type.kind = "Xor"
        /\ k < Len(tokens) => tokens[k + 1].token_type.kind \notin {"Rect", "Line"}

\* C26: for every token sequence parse returns an AST or a typed CompileError
\* and never aborts; an `xor` that is not immediately followed by `rect` or
\* `line` is reported as an error, not dropped
C26_ParseNeverAborts ==
    parsed # None =>
        /\ parsed.tag \in {"Ok", "Err"}
        /\ InputTokens.tag = "Ok" /\ XorMisplaced(InputTokens.tokens)
              => parsed.tag = "Err"

(* --------------------------------- C23 --------------------------------- *)
\* the grid points an Or line connects
LinePoints(line) == UNION LineSegments(line)

\* the declarations processed are a room and then a corridor stub attached to
\* it: an Or line that starts or ends on the room's perimeter, leaves it, and
\* runs along no segment of it
StubOnRoom ==
    /\ HasMap /\ Generated /\ Len(ast) = 2
    /\ IsRoom(ast[1]) /\ ast[1].shape.boolean_op = "Or"
    /\ ast[2].type = "Line" /\ ast[2].shape.boolean_op = "Or"
    /\ LinePoints(ast[2].shape) \cap PerimeterPoints(ast[1].shape) # {}
    /\ LinePoints(ast[2].shape) \ PerimeterPoints(ast[1].shape) # {}
    /\ LineSegments(ast[2].shape) \cap PerimeterPairs(ast[1].shape) = {}

\* C23: where a corridor stub is attached to a rectangle, find_cycles returns
\* the room's cycle exactly once, and no two returned cycles have the same
\* node set, whatever the node indices of the stub points
C23_RoomCycleOnceWithStub ==
    StubOnRoom =>
        LET cycles == find_cycles(map.graph)
        IN  /\ Cardinality({i \in 1..Len(cycles) :
                   NodeSet(cycles[i]) = PerimeterHandles(map, ast[1].shape)}) = 1
            /\ \A i, j \in 1..Len(cycles) :
                   i # j => NodeSet(cycles[i]) # NodeSet(cycles[j])

(* --------------------------------- C24 --------------------------------- *)
\* Point::taxicab_distance
taxicab_distance(self, p) ==
    LET x1 == IF self.x > p.x THEN self.x ELSE p.x
        x2 == IF self.x > p.x THEN p.x ELSE self.x
        y1 == IF self.y > p.y THEN self.y ELSE p.y
        y2 == IF self.y > p.y THEN p.y ELSE self.y
    IN  (x1 - x2) + (y1 - y2)

\* the path elements of a document without entity glyphs
PathElements(elements) == SelectSeq(elements, LAMBDA e : e.tag = "path")

\* the points of a component that are on no returned cycle
ChainPoints(m, component) ==
    {m.graph.nodes[component[k]].data : k \in 1..Len(component)}
        \ polygon_points(m, find_cycles(m.graph))

\* the non-empty chains of the components of more than one node
Chains(m) ==
    LET components == connected_components(m.graph)
    IN  {ChainPoints(m, components[k]) :
            k \in {c \in 1..Len(components) : Len(components[c]) > 1}} \ {{}}

\* points visits exactly the chain, scaled, from a point of maximum taxicab
\* distance from (0,0) on in ascending taxicab distance from that anchor
IsChainPath(points, chain, dim) ==
    /\ Len(points) = Cardinality(chain)
    /\ {points[i] : i \in 1..Len(points)} = {scale(p, dim) : p \in chain}
    /\ \A p \in chain :
           taxicab_distance(scale(p, dim), point(0, 0))
               <= taxicab_distance(points[1], point(0, 0))
    /\ \A i, j \in 1..Len(points) :
           i < j => taxicab_distance(points[1], points[i])
                        <= taxicab_distance(points[1], points[j])

\* C24: every connected component of more than one node with points left
\* after the polygon points are removed is rendered as exactly one path, which
\* visits exactly those points from the one farthest from (0,0) on in
\* ascending taxicab distance from it; no other path is emitted
C24_OnePathPerChain ==
    Rendered /\ map.entities = <<>> /\ ~HasDuplicateNeighbour(map.graph) =>
        /\ output.tag = "Svg"
        /\ LET drawn == PathElements(output.elements)
               dim == IF map.width > 0 THEN output.width \div map.width ELSE 1
           IN  /\ Len(drawn) = Cardinality(Chains(map))
               /\ \A chain \in Chains(map) :
                      Cardinality({k \in 1..Len(drawn) :
                          IsChainPath(drawn[k].points, chain, dim)}) = 1

(* --------------------------------- C25 --------------------------------- *)
\* C25: during generation Map::connect, Map::disconnect and
\* Map::are_connected are only called with two points that both satisfy
\* point_exists: the unwrap on find_node never fails, and no key out of range
\* is taken for the key of another node
C25_MapCalledWithExistingPoints == ~unchecked /\ pc # "panicked"

\* an Xor shape that was stopped by OutOfBounds after it had connected a
\* segment, on a grid where the key of the missing point is another node's key
C25_Witness ==
    /\ Failed /\ HasMap /\ Len(ast) >= 1
    /\ ast[Len(ast)].type \in {"Rect", "Line"}
    /\ ast[Len(ast)].shape.boolean_op = "Xor"
    /\ ConnectedPairs(map) # {}
    /\ \E k \in 1..Len(Touches(ast[Len(ast)])) :
           \E i \in 1..2 :
               LET p == Touches(ast[Len(ast)])[k][i]
               IN  /\ ~point_exists(map, p)
                   /\ find_node(map, p) # -1

(* --------------------------------- C27 --------------------------------- *)
\* some node has itself as a neighbour
HasSelfLoop(graph) ==
    \E h \in DOMAIN graph.nodes : Node_has_edge(graph.nodes[h], h)

\* cycle is a simple cycle of the graph of at least n handles
IsSimpleCycle(graph, cycle, n) ==
    /\ Len(cycle) >= n
    /\ \A i, j \in 1..Len(cycle) : i # j => cycle[i] # cycle[j]
    /\ \A i \in 1..(Len(cycle) - 1) : is_edge_between(graph, cycle[i], cycle[i + 1])
    /\ is_edge_between(graph, cycle[Len(cycle)], cycle[1])

\* C27: every cycle find_cycles returns on a graph without self-loops is a
\* simple cycle of the graph: at least 3 handles (4 on a grid map), no handle
\* twice, consecutive handles joined by an edge, the last joined to the first
C27_CyclesAreSimpleCycles ==
    HasMap /\ ~HasSelfLoop(map.graph) =>
        LET cycles == find_cycles(map.graph)
        IN  \A c \in 1..Len(cycles) : IsSimpleCycle(map.graph, cycles[c], 4)

\* a room whose cycle is found from a root that is not on it, in a graph with
\* parallel edges
C27_Witness ==
    /\ HasMap /\ Generated /\ ~HasSelfLoop(map.graph)
    /\ HasDuplicateNeighbour(map.graph)
    /\ find_cycles(map.graph) # <<>>
    /\ map.graph.nodes[0].edges # <<>>
    /\ 0 \notin CycleHandles(find_cycles(map.graph))

(* --------------------------------- C28 --------------------------------- *)
\* the edges of the graph, multiplicity ignored
EdgeSet(graph) ==
    UNION {{{h, graph.nodes[h].edges[k]} : k \in 1..Len(graph.nodes[h].edges)} :
              h \in DOMAIN graph.nodes}

\* the classes of "joined by a path"
ComponentSets(graph) == {ReachableFrom(graph, {h}) : h \in DOMAIN graph.nodes}

\* the graph, multiplicity ignored, has no closed loop
IsForest(graph) ==
    /\ ~HasSelfLoop(graph)
    /\ Cardinality(EdgeSet(graph)) = NodeCount(graph) - Cardinality(ComponentSets(graph))

\* C28: find_cycles returns no cycle exactly when the graph, multiplicity of
\* edges ignored, is a forest; a map without a closed loop, segments connected
\* twice included, is rendered without a polygon, a map with one has a cycle
C28_NoCycleIffForest ==
    HasMap /\ Generated =>
        /\ find_cycles(map.graph) = <<>> <=> IsForest(map.graph)
        /\ pc = "done" /\ output.tag = "Svg" /\ map.entities = <<>>
                       /\ IsForest(map.graph)
              => \A k \in 1..Len(output.elements) : output.elements[k].tag # "polygon"

\* a rendered line whose segments were connected twice
C28_Witness ==
    /\ Rendered /\ output.tag = "Svg" /\ map.entities = <<>>
    /\ HasDuplicateNeighbour(map.graph)
    /\ IsForest(map.graph)

(* --------------------------------- C29 --------------------------------- *)
\* handle lies on a cycle of the graph: one of its edges is no bridge
OnCycle(graph, handle) ==
    \E k \in 1..Len(graph.nodes[handle].edges) :
        LET e == graph.nodes[handle].edges[k]
        IN  e \in ReachableFrom(Graph_remove_edge(graph, handle, e), {handle})

\* C29: on a graph without parallel edges or self-loops every node that lies
\* on a cycle is in a cycle find_cycles returns, and its point is in the
\* renderer's polygon-point set
C29_CycleNodesAreCovered ==
    HasMap /\ Generated /\ ~HasDuplicateNeighbour(map.graph)
           /\ ~HasSelfLoop(map.graph) =>
        LET cycles == find_cycles(map.graph)
        IN  \A h \in DOMAIN map.graph.nodes :
                OnCycle(map.graph, h) =>
                    /\ h \in CycleHandles(cycles)
                    /\ map.graph.nodes[h].data \in polygon_points(map, cycles)

\* two loops that share a side, none of its segments connected twice
C29_Witness ==
    /\ HasMap /\ Generated /\ ~HasDuplicateNeighbour(map.graph)
    /\ \E h \in DOMAIN map.graph.nodes :
           /\ Len(map.graph.nodes[h].edges) = 3
           /\ \A k \in 1..3 : OnCycle(map.graph, map.graph.nodes[h].edges[k])

(* --------------------------------- C30 --------------------------------- *)
\* node is a rectangle whose anchor, or a line whose effective start, fails
\* point_exists on m
StartsOutside(m, node) ==
    \/ node.type = "Rect" /\ ~point_exists(m, node.shape.point)
    \/ node.type = "Line" /\ ~point_exists(m, line_start(node.shape))

\* C30: a rectangle whose anchor point, or a line whose effective start point,
\* fails point_exists makes generation fail with OutOfBounds, whatever its
\* width, height or length, 0 included
C30_OutsideStartFails ==
    HasMap =>
        \A k \in 1..Len(ast) :
            StartsOutside(map, ast[k]) =>
                /\ k = Len(ast)
                /\ Failed
                /\ result.error = out_of_bounds(ast[k].location)

====
